---- MODULE Spec2Model ----
(***************************************************************************)
(* Model of notecalc-lib/src/token_parser.rs: TokenParser::parse_line and  *)
(* the scanners it calls.  A line is a sequence of characters, a character *)
(* is a one-character string.  Indices (index, i, var_index) are 0-based   *)
(* as in the source; a TLA+ sequence s is read at s[i + 1].                *)
(***************************************************************************)
EXTENDS Integers, Sequences, FiniteSets, TLC

(* ------------------------------ bounds --------------------------------- *)
\* a generated input line is a concatenation of at most MaxPieces pieces
MaxPieces == 3
\* MAX_LINE_COUNT of the crate: the variable table has MaxLineCount + 1 slots
MaxLineCount == 2
\* the row and column counts of a Matrix and the argument count of a Fn are
\* at most MaxDim
MaxDim == 2

(* ------------------------- program constants --------------------------- *)
\* let mut number_str = [b'0'; 256];
NumberStrCap == 256

(* A value that the source binds once (let x = e;) and then reads several    *)
(* times is bound as x \in {e}, which evaluates e once.                      *)

(* ------------------------------ Option --------------------------------- *)
None == << >>
Some(x) == << x >>
IsSome(o) == o # << >>
Unwrap(o) == o[1]

(* --------------------------- character classes ------------------------- *)
AsciiDigits == {"0", "1", "2", "3", "4", "5", "6", "7", "8", "9"}
AsciiLower == {"a", "b", "c", "d", "e", "f", "g", "h", "i", "j", "k", "l", "m",
               "n", "o", "p", "q", "r", "s", "t", "u", "v", "w", "x", "y", "z"}
AsciiUpper == {"A", "B", "C", "D", "E", "F", "G", "H", "I", "J", "K", "L", "M",
               "N", "O", "P", "Q", "R", "S", "T", "U", "V", "W", "X", "Y", "Z"}
\* non-ASCII letters that occur in the inputs (char::is_alphabetic is Unicode-aware)
NonAsciiLetters == {"á", "π"}
\* "NUL" stands for the character U+0000, whose `as u8` value is 0
NulChar == "NUL"

is_ascii_whitespace(c) == c \in {" ", "\t", "\n", "\r", "\f"}
is_ascii_digit(c) == c \in AsciiDigits
is_ascii_hexdigit(c) ==
    c \in AsciiDigits \cup {"a", "b", "c", "d", "e", "f", "A", "B", "C", "D", "E", "F"}
is_alphabetic(c) == c \in AsciiLower \cup AsciiUpper \cup NonAsciiLetters
is_alphanumeric(c) == is_alphabetic(c) \/ c \in AsciiDigits

(* ---------------------------- slice helpers ---------------------------- *)
\* str.get(i): 0-based, None past the end
Get(str, i) == IF i < Len(str) THEN Some(str[i + 1]) ELSE None
\* str.iter().take(n)
Take(str, n) == SubSeq(str, 1, IF n < Len(str) THEN n ELSE Len(str))
\* &str[i..]
From(str, i) == SubSeq(str, i + 1, Len(str))
\* str.starts_with(prefix)
starts_with(str, prefix) ==
    /\ Len(prefix) <= Len(str)
    /\ \A k \in 1..Len(prefix) : str[k] = prefix[k]

(* ------------------------------- tokens -------------------------------- *)
Token(ptr, typ, has_error) == [ptr |-> ptr, typ |-> typ, has_error |-> has_error]

StringLiteral == [kind |-> "StringLiteral"]
Header == [kind |-> "Header"]
Variable(var_index) == [kind |-> "Variable", var_index |-> var_index]
LineReference(var_index) == [kind |-> "LineReference", var_index |-> var_index]
NumberLiteral(value) == [kind |-> "NumberLiteral", value |-> value]
NumberErr == [kind |-> "NumberErr"]
Operator(op) == [kind |-> "Operator", op |-> op]
Unit(unit) == [kind |-> "Unit", unit |-> unit]

\* OperatorTokenType: a kind plus, for ApplyUnit, the unit descriptor
Op(kind) == [kind |-> kind]
ApplyUnit(unit) == [kind |-> "ApplyUnit", unit |-> unit]
Matrix(row_count, col_count) ==
    [kind |-> "Matrix", row_count |-> row_count, col_count |-> col_count]
Fn(arg_count, typ) == [kind |-> "Fn", arg_count |-> arg_count, typ |-> typ]

\* enum Assoc
Left == "Left"
Right == "Right"

\* variant: Pow binds like ApplyUnit
precedence_PowIsFive(self) ==
    CASE self.kind = "Pow" -> 5
      [] self.kind = "Perc" -> 6
      [] self.kind = "ApplyUnit" -> 5
      [] self.kind \in {"UnaryPlus", "UnaryMinus", "BinNot"} -> 4
      [] self.kind \in {"Mult", "Div"} -> 3
      [] self.kind \in {"Add", "Sub"} -> 2
      [] OTHER -> 0

\* OperatorTokenType::precedence: match self { ... }
precedence(self) ==
    CASE self.kind = "Add" -> 2
      [] self.kind = "UnaryPlus" -> 4
      [] self.kind = "Sub" -> 2
      [] self.kind = "UnaryMinus" -> 4
      [] self.kind = "Mult" -> 3
      [] self.kind = "Div" -> 3
      [] self.kind = "Perc" -> 6
      [] self.kind = "BinAnd" -> 0
      [] self.kind = "BinOr" -> 0
      [] self.kind = "BinXor" -> 0
      [] self.kind = "BinNot" -> 4
      [] self.kind = "Pow" -> 6
      [] self.kind = "ParenOpen" -> 0
      [] self.kind = "ParenClose" -> 0
      [] self.kind = "ShiftLeft" -> 0
      [] self.kind = "ShiftRight" -> 0
      [] self.kind = "Assign" -> 0
      [] self.kind = "UnitConverter" -> 0
      [] self.kind \in {"Semicolon", "Comma"} -> 0
      [] self.kind = "BracketOpen" -> 0
      [] self.kind = "BracketClose" -> 0
      [] self.kind = "Matrix" -> 0
      [] self.kind = "Fn" -> 0
      [] self.kind = "ApplyUnit" -> 5

\* variant: every operator is left-associative
assoc_AllLeft(self) == Left

\* OperatorTokenType::assoc: match self { ... }
assoc(self) ==
    CASE self.kind = "ParenClose" -> Left
      [] self.kind = "Add" -> Left
      [] self.kind = "UnaryPlus" -> Left
      [] self.kind = "Sub" -> Left
      [] self.kind = "UnaryMinus" -> Left
      [] self.kind = "Mult" -> Left
      [] self.kind = "Div" -> Left
      [] self.kind = "Perc" -> Left
      [] self.kind = "BinAnd" -> Left
      [] self.kind = "BinOr" -> Left
      [] self.kind = "BinXor" -> Left
      [] self.kind = "BinNot" -> Left
      [] self.kind = "Pow" -> Right
      [] self.kind = "ParenOpen" -> Left
      [] self.kind = "ShiftLeft" -> Left
      [] self.kind = "ShiftRight" -> Left
      [] self.kind = "Assign" -> Left
      [] self.kind = "UnitConverter" -> Left
      [] self.kind \in {"Semicolon", "Comma"} -> Right
      [] self.kind = "BracketOpen" -> Left
      [] self.kind = "BracketClose" -> Left
      [] self.kind = "Matrix" -> Left
      [] self.kind = "Fn" -> Left
      [] self.kind = "ApplyUnit" -> Left

(* ------------------------- try_extract_comment ------------------------- *)
try_extract_comment(line) ==
    IF starts_with(line, <<"/", "/">>)
    THEN Some(Token(line, StringLiteral, FALSE))
    ELSE None

(* ---------------------- try_extract_string_literal --------------------- *)
\* variant: '&' ends a word, too
StringBreakChars_WithAmpersand ==
    {"=", "%", "/", "+", "-", "*", "^", "(", ")", "[", "]", "&"}

StringBreakChars == {"=", "%", "/", "+", "-", "*", "^", "(", ")", "[", "]"}

\* the least element of a non-empty set of integers
Min(S) == CHOOSE k \in S : \A j \in S : k <= j

\* a first loop that goes on over whitespace
WordRun_ThroughWhitespace(str, i) ==
    Min({k \in i..Len(str) : k = Len(str) \/ str[k + 1] \in StringBreakChars})

\* first loop: the index at which the run of characters that are neither
\* break characters nor whitespace, starting at i, ends
WordRun(str, i) ==
    Min({k \in i..Len(str) :
            \/ k = Len(str)
            \/ str[k + 1] \in StringBreakChars
            \/ is_ascii_whitespace(str[k + 1])})

\* second loop: the index at which the run of whitespace starting at i ends
WhitespaceRun(str, i) ==
    Min({k \in i..Len(str) : k = Len(str) \/ ~is_ascii_whitespace(str[k + 1])})

\* debug_assert!(*ch as u8 != 0) is evaluated for every character of the word
DebugAssertFails(str) ==
    \E k \in 1..WordRun(str, 0) : str[k] = NulChar

try_extract_string_literal(str) ==
    LET i == WordRun(str, 0)
        w == WhitespaceRun(str, 0)
    IN  IF i > 0 THEN Some(Token(Take(str, i), StringLiteral, FALSE))
        ELSE IF w > 0 THEN Some(Token(Take(str, w), StringLiteral, FALSE))
        ELSE None

(* ------------------------- try_extract_operator ------------------------ *)
op(typ, str, len) == Some(Token(Take(str, len), Operator(typ), FALSE))

\* a word operator accepted whatever follows it
NextNotAlphabetic_Always(str, i) == TRUE

NextNotAlphabetic(str, i) ==
    IF IsSome(Get(str, i)) THEN ~is_alphabetic(Unwrap(Get(str, i))) ELSE TRUE

try_extract_operator(str) ==
    CASE str[1] = "=" -> op(Op("Assign"), str, 1)
      [] str[1] = "+" -> op(Op("Add"), str, 1)
      [] str[1] = "-" -> op(Op("Sub"), str, 1)
      [] str[1] = "*" -> op(Op("Mult"), str, 1)
      [] str[1] = "/" -> op(Op("Div"), str, 1)
      [] str[1] = "%" -> op(Op("Perc"), str, 1)
      [] str[1] = "^" -> op(Op("Pow"), str, 1)
      [] str[1] = "(" -> op(Op("ParenOpen"), str, 1)
      [] str[1] = ")" -> op(Op("ParenClose"), str, 1)
      [] str[1] = "[" -> op(Op("BracketOpen"), str, 1)
      [] str[1] = "]" -> op(Op("BracketClose"), str, 1)
      [] str[1] = "," -> op(Op("Comma"), str, 1)
      [] str[1] = ";" -> op(Op("Semicolon"), str, 1)
      [] OTHER ->
            IF starts_with(str, <<"i", "n", " ">>)
            THEN op(Op("UnitConverter"), str, 2)
            ELSE IF starts_with(str, <<"A", "N", "D">>) /\ NextNotAlphabetic(str, 3)
            THEN op(Op("BinAnd"), str, 3)
            ELSE IF starts_with(str, <<"O", "R">>) /\ NextNotAlphabetic(str, 2)
            THEN op(Op("BinOr"), str, 2)
            ELSE IF starts_with(str, <<"N", "O", "T", "(">>)
            THEN op(Op("BinNot"), str, 3)
            ELSE IF starts_with(str, <<"X", "O", "R">>) /\ NextNotAlphabetic(str, 3)
            THEN op(Op("BinXor"), str, 3)
            ELSE IF starts_with(str, <<"<", "<">>)
            THEN op(Op("ShiftLeft"), str, 2)
            ELSE IF starts_with(str, <<">", ">">>)
            THEN op(Op("ShiftRight"), str, 2)
            ELSE None

(* ---------------------- try_extract_variable_name ---------------------- *)
\* crate::SUM_VARIABLE_INDEX: the slot after the last line's slot
SUM_VARIABLE_INDEX == MaxLineCount

\* variant: the check of a following '(' is left out
NameMatches_NoParenCheck(line, name) ==
    /\ \A i \in 0..(Len(name) - 1) : ~(i >= Len(line) \/ line[i + 1] # name[i + 1])
    /\ ~(IF Len(name) < Len(line) THEN is_alphanumeric(line[Len(name) + 1]) ELSE FALSE)

\* the candidate test of the scan loop: every character of the name is
\* present in the line, and the next character is neither '(' nor alphanumeric
NameMatches(line, name) ==
    /\ \A i \in 0..(Len(name) - 1) : ~(i >= Len(line) \/ line[i + 1] # name[i + 1])
    /\ ~(IF Len(name) < Len(line) THEN line[Len(name) + 1] = "(" ELSE FALSE)
    /\ ~(IF Len(name) < Len(line) THEN is_alphanumeric(line[Len(name) + 1]) ELSE FALSE)

\* variant: the first match of the scan is kept, whatever its length
KeepLongest_FirstSeen(acc, var_index, name) ==
    IF acc.longest_match = 0
    THEN [longest_match |-> Len(name), longest_match_index |-> var_index]
    ELSE acc

\* variant: a match of the same length replaces the one kept so far
KeepLongest_OrEqual(acc, var_index, name) ==
    IF Len(name) >= acc.longest_match
    THEN [longest_match |-> Len(name), longest_match_index |-> var_index]
    ELSE acc

\* if var.name.len() > longest_match { ... }
KeepLongest(acc, var_index, name) ==
    IF Len(name) > acc.longest_match
    THEN [longest_match |-> Len(name), longest_match_index |-> var_index]
    ELSE acc

RECURSIVE ScanVars(_, _, _, _)
\* for (var_index, var) in vars[0..k].iter().enumerate().rev(), var_index = k - 1
ScanVars(line, vars, k, acc) ==
    IF k = 0 THEN acc
    ELSE IF vars[k] = None THEN ScanVars(line, vars, k - 1, acc)
    ELSE IF NameMatches(line, Unwrap(vars[k]).name)
    THEN CHOOSE m \in {ScanVars(line, vars, k - 1, a) :
                          a \in {KeepLongest(acc, k - 1, Unwrap(vars[k]).name)}} : TRUE
    ELSE ScanVars(line, vars, k - 1, acc)

\* variant: the slice vars[0..=row_index]
VisibleCount_Inclusive(row_index) == row_index + 1

\* the slice vars[0..row_index] that the loop scans
VisibleCount(row_index) == row_index

\* variant: the character after sum is not looked at
IsSumAtCursor_AnyNext(line) == starts_with(line, <<"s", "u", "m">>)

IsSumAtCursor(line) ==
    /\ starts_with(line, <<"s", "u", "m">>)
    /\ (IF 3 < Len(line) THEN line[4] = " " ELSE TRUE)

\* variant: a line reference is returned whatever the previous token is
VariableToken_NoLinerefCheck(line, m, prev_was_lineref) ==
    IF m.longest_match > 0
    THEN IF m.longest_match > 2 /\ line[1] = "&" /\ line[2] = "["
         THEN Some(Token(Take(line, m.longest_match),
                         LineReference(m.longest_match_index), FALSE))
         ELSE Some(Token(Take(line, m.longest_match),
                         Variable(m.longest_match_index), FALSE))
    ELSE None

\* variant: a match of two characters is a line reference already
VariableToken_RefFromTwo(line, m, prev_was_lineref) ==
    IF m.longest_match > 0
    THEN IF m.longest_match >= 2 /\ line[1] = "&" /\ line[2] = "["
         THEN IF prev_was_lineref THEN None
              ELSE Some(Token(Take(line, m.longest_match),
                              LineReference(m.longest_match_index), FALSE))
         ELSE Some(Token(Take(line, m.longest_match),
                         Variable(m.longest_match_index), FALSE))
    ELSE None

\* the token built from the scan's result m
VariableToken(line, m, prev_was_lineref) ==
    IF m.longest_match > 0
    THEN IF m.longest_match > 2 /\ line[1] = "&" /\ line[2] = "["
         THEN IF prev_was_lineref THEN None
              ELSE Some(Token(Take(line, m.longest_match),
                              LineReference(m.longest_match_index), FALSE))
         ELSE Some(Token(Take(line, m.longest_match),
                         Variable(m.longest_match_index), FALSE))
    ELSE None

try_extract_variable_name(line, vars, row_index, prev_was_lineref) ==
    IF IsSumAtCursor(line)
    THEN Some(Token(Take(line, 3), Variable(SUM_VARIABLE_INDEX), FALSE))
    ELSE CHOOSE t \in {VariableToken(line, m, prev_was_lineref) :
                          m \in {ScanVars(line, vars, VisibleCount(row_index),
                                          [longest_match |-> 0, longest_match_index |-> 0])}} :
            TRUE

(* ----------------------------- Unit Grammar ---------------------------- *)
\* Units::parse is outside this file.  It is modelled from its contract: it
\* recognises a unit-expression prefix and returns (descriptor, consumed
\* length), 0 for no match.  The modelled grammar is
\*     name [ '^' [ '-' ] digit ] whitespace*
\* where name is one of UnitNames and is not followed by a letter.
UnitNames == {<<"k", "g">>, <<"m">>, <<"s">>}
NoUnit == [name |-> << >>, exp |-> << >>]

\* the length of the exponent at str[p..], 0 if there is none
UnitExpLen(str, p) ==
    IF p < Len(str) /\ str[p + 1] = "^"
    THEN IF p + 1 < Len(str) /\ is_ascii_digit(str[p + 2]) THEN 2
         ELSE IF p + 2 < Len(str) /\ str[p + 2] = "-" /\ is_ascii_digit(str[p + 3]) THEN 3
         ELSE 0
    ELSE 0

UnitNameAt(str, n) ==
    /\ starts_with(str, n)
    /\ (IF Len(n) < Len(str) THEN ~is_alphabetic(str[Len(n) + 1]) ELSE TRUE)

\* the unit expression made of the name n and an exponent of length e
UnitWithExp(str, n, e) ==
    [unit |-> [name |-> n, exp |-> SubSeq(str, Len(n) + 2, Len(n) + e)],
     parsed_len |-> WhitespaceRun(str, Len(n) + e)]

UnitParse(str) ==
    IF \E n \in UnitNames : UnitNameAt(str, n)
    THEN CHOOSE r \in {UnitWithExp(str, n, UnitExpLen(str, Len(n))) :
                            n \in {d \in UnitNames : UnitNameAt(str, d)}} :
            \A d \in UnitNames : UnitNameAt(str, d) => Len(d) <= Len(r.unit.name)
    ELSE [unit |-> NoUnit, parsed_len |-> 0]

(* --------------------------- try_extract_unit -------------------------- *)
RECURSIVE TrimTrailingWhitespace(_, _)
\* while i > 0 && str[i - 1].is_ascii_whitespace() { i -= 1; }
TrimTrailingWhitespace(str, i) ==
    IF i > 0 /\ is_ascii_whitespace(str[i]) THEN TrimTrailingWhitespace(str, i - 1) ELSE i

\* the result of a scanner that can panic: panic names the panic site
\* ("" when the scanner returned), tok is the Option<Token> it returned
Returned(tok) == [panic |-> "", tok |-> tok]
Panicked(site) == [panic |-> site, tok |-> None]

\* variant: the trailing whitespace is kept in the span
UnitToken_NoTrim(str, r, can_be_unit) ==
    IF r.parsed_len = 0 THEN Returned(None)
    ELSE
    CASE can_be_unit = "Not" -> Panicked("impossible")
      [] can_be_unit = "ApplyToPrevToken" ->
            Returned(Some(Token(Take(str, r.parsed_len), Operator(ApplyUnit(r.unit)), FALSE)))
      [] can_be_unit = "StandInItself" ->
            Returned(Some(Token(Take(str, r.parsed_len), Unit(r.unit), FALSE)))

\* let (unit, parsed_len) = units.parse(str); r is that pair
UnitToken(str, r, can_be_unit) ==
    IF r.parsed_len = 0 THEN Returned(None)
    ELSE
    CASE can_be_unit = "Not" -> Panicked("impossible")
      [] can_be_unit = "ApplyToPrevToken" ->
            Returned(Some(Token(Take(str, TrimTrailingWhitespace(str, r.parsed_len)),
                                Operator(ApplyUnit(r.unit)), FALSE)))
      [] can_be_unit = "StandInItself" ->
            Returned(Some(Token(Take(str, TrimTrailingWhitespace(str, r.parsed_len)),
                                Unit(r.unit), FALSE)))

\* a unit scanner that parses in every mode
try_extract_unit_NoModeGuard(str, can_be_unit) ==
    IF is_ascii_whitespace(str[1]) THEN Returned(None)
    ELSE CHOOSE t \in {UnitToken(str, r, can_be_unit) : r \in {UnitParse(str)}} : TRUE

try_extract_unit(str, can_be_unit) ==
    IF can_be_unit = "Not" \/ is_ascii_whitespace(str[1]) THEN Returned(None)
    ELSE CHOOSE t \in {UnitToken(str, r, can_be_unit) : r \in {UnitParse(str)}} : TRUE

(* ------------------- numbers: i64 and rust_decimal::Decimal ------------ *)
\* Natural numbers beyond 32-bit integers are sequences of decimal
\* digits, most significant first, without leading zeros (<< >> is 0).
I64Max == <<9, 2, 2, 3, 3, 7, 2, 0, 3, 6, 8, 5, 4, 7, 7, 5, 8, 0, 7>>
I64MinAbs == <<9, 2, 2, 3, 3, 7, 2, 0, 3, 6, 8, 5, 4, 7, 7, 5, 8, 0, 8>>
\* the 96-bit mantissa of a Decimal: 2^96 - 1
MaxMantissa == <<7, 9, 2, 2, 8, 1, 6, 2, 5, 1, 4, 2, 6, 4, 3, 3, 7, 5, 9, 3,
                 5, 4, 3, 9, 5, 0, 3, 3, 5>>
\* the largest scale of a Decimal
MaxScale == 28

HexVal(c) ==
    CASE c = "0" -> 0 [] c = "1" -> 1 [] c = "2" -> 2 [] c = "3" -> 3 [] c = "4" -> 4
      [] c = "5" -> 5 [] c = "6" -> 6 [] c = "7" -> 7 [] c = "8" -> 8 [] c = "9" -> 9
      [] c \in {"a", "A"} -> 10 [] c \in {"b", "B"} -> 11 [] c \in {"c", "C"} -> 12
      [] c \in {"d", "D"} -> 13 [] c \in {"e", "E"} -> 14 [] c \in {"f", "F"} -> 15

StripLeadingZeros(ds) ==
    IF \A k \in 1..Len(ds) : ds[k] = 0 THEN << >>
    ELSE SubSeq(ds, CHOOSE k \in 1..Len(ds) : ds[k] # 0 /\ \A j \in 1..(k - 1) : ds[j] = 0,
                Len(ds))

Zeros(n) == [k \in 1..n |-> 0]

\* a <= b for digit sequences without leading zeros
LeqNat(a, b) ==
    \/ Len(a) < Len(b)
    \/ /\ Len(a) = Len(b)
       /\ \/ a = b
          \/ \E k \in 1..Len(a) : a[k] < b[k] /\ \A j \in 1..(k - 1) : a[j] = b[j]

RECURSIVE MulAdd(_, _, _)
\* ds * base + carry
MulAdd(ds, base, carry) ==
    IF ds = << >>
    THEN IF carry = 0 THEN << >> ELSE Append(MulAdd(<< >>, base, carry \div 10), carry % 10)
    ELSE CHOOSE r \in {Append(MulAdd(rest, base, v \div 10), v % 10) :
                          v \in {ds[Len(ds)] * base + carry},
                          rest \in {SubSeq(ds, 1, Len(ds) - 1)}} : TRUE

\* the accumulator after a step that computed next
RadixAccept(st, next, limit) ==
    IF LeqNat(next, limit) THEN [k |-> st.k + 1, acc |-> next, ok |-> TRUE]
    ELSE [st EXCEPT !.ok = FALSE]

\* one step of the checked accumulation of from_str_radix: st.acc becomes
\* st.acc * radix + digit, st.ok becomes FALSE when that exceeds limit
RadixIter(cs, radix, limit, st) ==
    IF ~st.ok \/ st.k > Len(cs) THEN st
    ELSE CHOOSE r \in {RadixAccept(st, next, limit) :
                          next \in {MulAdd(st.acc, radix, HexVal(cs[st.k]))}} : TRUE

RECURSIVE RadixLoop(_, _, _, _, _)
\* the steps that follow the state half, reached after the first n \div 2 of n steps
RadixRest(cs, radix, limit, half, n) ==
    CHOOSE st \in {IF ~h.ok THEN h ELSE RadixLoop(cs, radix, limit, h, n - (n \div 2)) :
                      h \in {half}} : TRUE

\* n steps of the accumulation
RadixLoop(cs, radix, limit, st, n) ==
    IF n = 0 THEN st
    ELSE IF n = 1 THEN RadixIter(cs, radix, limit, st)
    ELSE RadixRest(cs, radix, limit, RadixLoop(cs, radix, limit, st, n \div 2), n)

\* a Decimal value: sign, integer digits (no leading zeros) and fraction
\* digits; the scale is Len(frac)
Dec(neg, int, frac) ==
    [neg |-> neg /\ ((\E k \in 1..Len(int) : int[k] # 0) \/ (\E k \in 1..Len(frac) : frac[k] # 0)),
     int |-> StripLeadingZeros(int), frac |-> frac]
Ok(value) == [ok |-> TRUE, value |-> value]
Err == [ok |-> FALSE, value |-> [neg |-> FALSE, int |-> << >>, frac |-> << >>]]

\* i64::from_str_radix(s, radix) followed by num.into(): s is an optional
\* '-' and digits valid in the radix; Err for no digit or a value outside
\* the 64-bit signed range
I64Result(neg, r) == IF r.ok THEN Ok(Dec(neg, r.acc, << >>)) ELSE Err

i64_from_str_radix(s, radix) ==
    IF s = << >> \/ s = <<"-">> THEN Err
    ELSE IF s[1] = "-"
    THEN CHOOSE num \in {I64Result(TRUE, r) :
                            r \in {RadixLoop(Tail(s), radix, I64MinAbs,
                                             [k |-> 1, acc |-> << >>, ok |-> TRUE],
                                             Len(s) - 1)}} : TRUE
    ELSE CHOOSE num \in {I64Result(FALSE, r) :
                            r \in {RadixLoop(s, radix, I64Max,
                                             [k |-> 1, acc |-> << >>, ok |-> TRUE],
                                             Len(s))}} : TRUE

DigitsOf(cs) == [k \in 1..Len(cs) |-> HexVal(cs[k])]

\* position (1-based) of the first occurrence of c in s, 0 if absent
IndexOf(s, c) ==
    IF \E k \in 1..Len(s) : s[k] = c
    THEN CHOOSE k \in 1..Len(s) : s[k] = c /\ \A j \in 1..(k - 1) : s[j] # c
    ELSE 0

\* the Decimal of an unsigned integer part and a fraction part given as
\* digit characters: Err without a digit or when the integer part exceeds
\* the 96-bit mantissa; fraction digits that do not fit are dropped
DecimalOfInt(neg, int, frac) ==
    IF ~LeqNat(int, MaxMantissa) THEN Err
    ELSE Ok(Dec(neg, int, Take(frac, IF Len(int) >= MaxScale THEN 0 ELSE MaxScale - Len(int))))

DecimalOfParts(neg, int_chars, frac_chars) ==
    IF Len(int_chars) + Len(frac_chars) = 0 THEN Err
    ELSE CHOOSE num \in {DecimalOfInt(neg, int, frac) :
                            int \in {StripLeadingZeros(DigitsOf(int_chars))},
                            frac \in {DigitsOf(frac_chars)}} : TRUE

\* the same for an unsigned string with at most one '.', found at dot (0 if absent)
DecimalOfBody(neg, body, dot) ==
    IF dot = 0 THEN DecimalOfParts(neg, body, << >>)
    ELSE DecimalOfParts(neg, SubSeq(body, 1, dot - 1), SubSeq(body, dot + 1, Len(body)))

\* Decimal::from_str(s): s is an optional '-', digits and at most one '.'
Decimal_from_str(s) ==
    IF s # << >> /\ s[1] = "-"
    THEN DecimalOfBody(TRUE, Tail(s), IndexOf(Tail(s), "."))
    ELSE DecimalOfBody(FALSE, s, IndexOf(s, "."))

\* value * 10^e
ShiftUp(value, e) ==
    IF e <= Len(value.frac)
    THEN Dec(value.neg, value.int \o Take(value.frac, e), From(value.frac, e))
    ELSE Dec(value.neg, value.int \o value.frac \o Zeros(e - Len(value.frac)), << >>)

\* value / 10^e, the scale growing by e
ShiftDown(value, e) ==
    IF e <= Len(value.int)
    THEN Dec(value.neg, Take(value.int, Len(value.int) - e),
             From(value.int, Len(value.int) - e) \o value.frac)
    ELSE Dec(value.neg, << >>, Zeros(e - Len(value.int)) \o value.int \o value.frac)

\* the value fits a Decimal: 96-bit integer part, scale at most MaxScale
Representable(value) == LeqNat(value.int, MaxMantissa) /\ Len(value.frac) <= MaxScale

CheckedValue(value) ==
    CHOOSE num \in {IF Representable(v) THEN Ok(v) ELSE Err : v \in {value}} : TRUE

\* the exponent digits exp as a number, MaxScale + 1 standing for anything larger
ExpValue(exp) ==
    CHOOSE e \in {IF Len(ds) = 0 THEN 0
                  ELSE IF Len(ds) = 1 THEN ds[1]
                  ELSE IF Len(ds) = 2 /\ 10 * ds[1] + ds[2] <= MaxScale
                  THEN 10 * ds[1] + ds[2]
                  ELSE MaxScale + 1 : ds \in {StripLeadingZeros(exp)}} : TRUE

\* base scaled by 10^e (by 10^-e when exp_neg)
Scaled(base, exp_neg, e) ==
    IF ~base.ok \/ e > MaxScale THEN Err
    ELSE IF exp_neg THEN CheckedValue(ShiftDown(base.value, e))
    ELSE CheckedValue(ShiftUp(base.value, e))

\* the parts of "<base>e[-]<digits>", the 'e' being at position epos
ScientificParts(s, epos) ==
    IF epos < Len(s) /\ s[epos + 1] = "-"
    THEN CHOOSE num \in {Scaled(base, TRUE, e) :
                            base \in {Decimal_from_str(SubSeq(s, 1, epos - 1))},
                            e \in {ExpValue(DigitsOf(SubSeq(s, epos + 2, Len(s))))}} : TRUE
    ELSE CHOOSE num \in {Scaled(base, FALSE, e) :
                            base \in {Decimal_from_str(SubSeq(s, 1, epos - 1))},
                            e \in {ExpValue(DigitsOf(SubSeq(s, epos + 1, Len(s))))}} : TRUE

\* Decimal::from_scientific(s): Err when the result is not representable
Decimal_from_scientific(s) ==
    IF IndexOf(s, "e") = 0 THEN Err ELSE ScientificParts(s, IndexOf(s, "e"))

\* Decimal::from(multiplier).checked_mul(&num), multiplier being 1_000 or
\* 1_000_000: None when the product is not representable
checked_mul(multiplier, num) ==
    CHOOSE result \in {IF Representable(product) THEN Some(product) ELSE None :
                          product \in {ShiftUp(num, IF multiplier = 1000 THEN 3 ELSE 6)}} :
        TRUE

\* rust_decimal::prelude::PI
PI == Dec(FALSE, <<3>>, <<1, 4, 1, 5, 9, 2, 6, 5, 3, 5, 8, 9, 7, 9, 3, 2, 3, 8, 4, 6,
                          2, 6, 4, 3, 3, 8, 3, 3>>)

(* ---------------------- try_extract_number_literal --------------------- *)
\* The locals of the function are a record st: number_str holds the bytes
\* written so far (number_str_index is its length), stop is set when the
\* scanning loop has ended, panic when a write was out of the buffer.

\* number_str[number_str_index] = c; number_str_index += 1;
PushByte(st, c) ==
    CHOOSE r \in {IF s.panic THEN s
                  ELSE IF Len(s.number_str) >= NumberStrCap THEN [s EXCEPT !.panic = TRUE]
                  ELSE [s EXCEPT !.number_str = Append(@, c)] : s \in {st}} : TRUE

\* i += 1 at the end of a loop iteration
Advance(st) ==
    CHOOSE r \in {IF s.panic THEN s ELSE [s EXCEPT !.i = @ + 1] : s \in {st}} : TRUE

\* str[0] == '-' && str.get(1).map(|it| !it.is_ascii_whitespace()).unwrap_or(false)
HasLeadingMinus(str) ==
    str[1] = "-" /\ (IF IsSome(Get(str, 1)) THEN ~is_ascii_whitespace(Unwrap(Get(str, 1)))
                     ELSE FALSE)

\* the locals before the branches
NumberInit(str) ==
    [i |-> IF HasLeadingMinus(str) THEN 1 ELSE 0,
     number_str |-> IF HasLeadingMinus(str) THEN <<"-">> ELSE << >>,
     end_index_before_last_whitespace |-> 0,
     decimal_point_count |-> 0, digit_count |-> 0, e_count |-> 0,
     e_neg |-> FALSE, e_already_added |-> FALSE, multiplier |-> None,
     stop |-> FALSE, panic |-> FALSE]

\* i += 2; let mut end_index_before_last_whitespace = i;
SkipPrefix(st) ==
    [st EXCEPT !.i = @ + 2, !.end_index_before_last_whitespace = st.i + 2]

\* a 0b branch that counts skipped whitespace into the span
BinIter_KeepsWhitespace(str, st) ==
    IF st.stop \/ st.panic THEN st
    ELSE IF ~(st.i < Len(str)) THEN [st EXCEPT !.stop = TRUE]
    ELSE IF str[st.i + 1] = "0" \/ str[st.i + 1] = "1"
    THEN Advance(PushByte([st EXCEPT !.end_index_before_last_whitespace = st.i + 1],
                          str[st.i + 1]))
    ELSE IF is_ascii_whitespace(str[st.i + 1])
    THEN Advance([st EXCEPT !.end_index_before_last_whitespace = st.i + 1])
    ELSE [st EXCEPT !.stop = TRUE]

\* one iteration of the loop of the 0b branch
BinIter(str, st) ==
    IF st.stop \/ st.panic THEN st
    ELSE IF ~(st.i < Len(str)) THEN [st EXCEPT !.stop = TRUE]
    ELSE IF str[st.i + 1] = "0" \/ str[st.i + 1] = "1"
    THEN Advance(PushByte([st EXCEPT !.end_index_before_last_whitespace = st.i + 1],
                          str[st.i + 1]))
    ELSE IF is_ascii_whitespace(str[st.i + 1]) THEN Advance(st)
    ELSE [st EXCEPT !.stop = TRUE]

RECURSIVE BinLoop(_, _, _)
\* the iterations that follow the locals half, reached after n \div 2 of n iterations
BinRest(str, half, n) ==
    CHOOSE st \in {IF h.stop \/ h.panic THEN h ELSE BinLoop(str, h, n - (n \div 2)) :
                      h \in {half}} : TRUE

\* n iterations of the loop
BinLoop(str, st, n) ==
    IF n = 0 THEN st
    ELSE IF n = 1 THEN BinIter(str, st)
    ELSE BinRest(str, BinLoop(str, st, n \div 2), n)

\* a hex digit accepted whatever follows it
HexDigitAccepted_AnyNext(str, i) == is_ascii_hexdigit(str[i + 1])

\* str[i].is_ascii_hexdigit() && str.get(i + 1).map(...).unwrap_or(true)
HexDigitAccepted(str, i) ==
    /\ is_ascii_hexdigit(str[i + 1])
    /\ (IF IsSome(Get(str, i + 1))
        THEN \/ is_ascii_hexdigit(Unwrap(Get(str, i + 1)))
             \/ Unwrap(Get(str, i + 1)) = "_"
             \/ ~is_alphabetic(Unwrap(Get(str, i + 1)))
        ELSE TRUE)

\* one iteration of the loop of the 0x branch
HexIter(str, st) ==
    IF st.stop \/ st.panic THEN st
    ELSE IF ~(st.i < Len(str)) THEN [st EXCEPT !.stop = TRUE]
    ELSE IF HexDigitAccepted(str, st.i)
    THEN Advance(PushByte([st EXCEPT !.end_index_before_last_whitespace = st.i + 1],
                          str[st.i + 1]))
    ELSE IF str[st.i + 1] = "_" THEN Advance(st)
    ELSE [st EXCEPT !.stop = TRUE]

RECURSIVE HexLoop(_, _, _)
\* the iterations that follow the locals half, reached after n \div 2 of n iterations
HexRest(str, half, n) ==
    CHOOSE st \in {IF h.stop \/ h.panic THEN h ELSE HexLoop(str, h, n - (n \div 2)) :
                      h \in {half}} : TRUE

HexLoop(str, st, n) ==
    IF n = 0 THEN st
    ELSE IF n = 1 THEN HexIter(str, st)
    ELSE HexRest(str, HexLoop(str, st, n \div 2), n)

\* a multiplier accepted whatever follows it
IsMultiplierAt_AnyNext(str, st, ch) ==
    /\ str[st.i + 1] = ch
    /\ st.e_count < 1
    /\ ~is_ascii_whitespace(str[st.i])

\* the shared condition of the 'k' and 'M' branches
IsMultiplierAt(str, st, ch) ==
    /\ str[st.i + 1] = ch
    /\ st.e_count < 1
    /\ ~is_ascii_whitespace(str[st.i])
    /\ (IF IsSome(Get(str, st.i + 1)) THEN ~is_alphabetic(Unwrap(Get(str, st.i + 1)))
        ELSE TRUE)

\* an exponent that loses its sign
ExponentDigit_NoSign(st, d) == PushByte(PushByte(st, "e"), d)

\* the first digit of the exponent: 'e', '-' if e_neg, then the digit
ExponentDigit(st, d) ==
    PushByte(IF st.e_neg THEN PushByte(PushByte(st, "e"), "-") ELSE PushByte(st, "e"), d)

\* a decimal branch whose loop ends at whitespace
DecIter_WhitespaceEnds(str, st) ==
    IF st.stop \/ st.panic THEN st
    ELSE IF ~(st.i < Len(str)) THEN [st EXCEPT !.stop = TRUE]
    ELSE IF str[st.i + 1] = "." /\ st.decimal_point_count < 1 /\ st.e_count < 1
    THEN Advance(PushByte([st EXCEPT !.decimal_point_count = @ + 1,
                                     !.end_index_before_last_whitespace = st.i + 1], "."))
    ELSE IF str[st.i + 1] = "-" /\ st.e_count = 1
    THEN IF st.e_neg \/ st.e_already_added THEN [st EXCEPT !.stop = TRUE]
         ELSE Advance([st EXCEPT !.e_neg = TRUE])
    ELSE IF str[st.i + 1] = "e" /\ st.e_count < 1 /\ ~is_ascii_whitespace(str[st.i])
    THEN Advance([st EXCEPT !.e_count = @ + 1])
    ELSE IF IsMultiplierAt(str, st, "k")
    THEN [st EXCEPT !.multiplier = Some(1000),
                    !.end_index_before_last_whitespace = st.i + 1, !.stop = TRUE]
    ELSE IF IsMultiplierAt(str, st, "M")
    THEN [st EXCEPT !.multiplier = Some(1000000),
                    !.end_index_before_last_whitespace = st.i + 1, !.stop = TRUE]
    ELSE IF is_ascii_digit(str[st.i + 1])
    THEN IF st.e_count > 0 /\ ~st.e_already_added
         THEN Advance(ExponentDigit([st EXCEPT !.end_index_before_last_whitespace = st.i + 1,
                                               !.e_already_added = TRUE], str[st.i + 1]))
         ELSE Advance(PushByte([st EXCEPT !.digit_count = @ + 1,
                                          !.end_index_before_last_whitespace = st.i + 1],
                               str[st.i + 1]))
    ELSE [st EXCEPT !.stop = TRUE]

\* one iteration of the loop of the decimal branch
DecIter(str, st) ==
    IF st.stop \/ st.panic THEN st
    ELSE IF ~(st.i < Len(str)) THEN [st EXCEPT !.stop = TRUE]
    ELSE IF str[st.i + 1] = "." /\ st.decimal_point_count < 1 /\ st.e_count < 1
    THEN Advance(PushByte([st EXCEPT !.decimal_point_count = @ + 1,
                                     !.end_index_before_last_whitespace = st.i + 1], "."))
    ELSE IF str[st.i + 1] = "-" /\ st.e_count = 1
    THEN IF st.e_neg \/ st.e_already_added THEN [st EXCEPT !.stop = TRUE]
         ELSE Advance([st EXCEPT !.e_neg = TRUE])
    ELSE IF str[st.i + 1] = "e" /\ st.e_count < 1 /\ ~is_ascii_whitespace(str[st.i])
    THEN Advance([st EXCEPT !.e_count = @ + 1])
    ELSE IF IsMultiplierAt(str, st, "k")
    THEN [st EXCEPT !.multiplier = Some(1000),
                    !.end_index_before_last_whitespace = st.i + 1, !.stop = TRUE]
    ELSE IF IsMultiplierAt(str, st, "M")
    THEN [st EXCEPT !.multiplier = Some(1000000),
                    !.end_index_before_last_whitespace = st.i + 1, !.stop = TRUE]
    ELSE IF is_ascii_digit(str[st.i + 1])
    THEN IF st.e_count > 0 /\ ~st.e_already_added
         THEN Advance(ExponentDigit([st EXCEPT !.end_index_before_last_whitespace = st.i + 1,
                                               !.e_already_added = TRUE], str[st.i + 1]))
         ELSE Advance(PushByte([st EXCEPT !.digit_count = @ + 1,
                                          !.end_index_before_last_whitespace = st.i + 1],
                               str[st.i + 1]))
    ELSE IF is_ascii_whitespace(str[st.i + 1]) THEN Advance(st)
    ELSE [st EXCEPT !.stop = TRUE]

RECURSIVE DecLoop(_, _, _)
\* the iterations that follow the locals half, reached after n \div 2 of n iterations
DecRest(str, half, n) ==
    CHOOSE st \in {IF h.stop \/ h.panic THEN h ELSE DecLoop(str, h, n - (n \div 2)) :
                      h \in {half}} : TRUE

DecLoop(str, st, n) ==
    IF n = 0 THEN st
    ELSE IF n = 1 THEN DecIter(str, st)
    ELSE DecRest(str, DecLoop(str, st, n \div 2), n)

\* a numeral token that never carries the error flag
NumberToken_FlagClear(str, st, typ, has_error) ==
    Some(Token(Take(str, st.end_index_before_last_whitespace), typ, FALSE))

\* Some(Token { typ, ptr: str.take(i), has_error }) with i = end_index_before_last_whitespace
NumberToken(str, st, typ, has_error) ==
    Some(Token(Take(str, st.end_index_before_last_whitespace), typ, has_error))

\* if let Some(result) = Decimal::from(multiplier).checked_mul(&num)
MultipliedToken(str, st, result) ==
    IF IsSome(result) THEN NumberToken(str, st, NumberLiteral(Unwrap(result)), FALSE)
    ELSE NumberToken(str, st, NumberErr, TRUE)

\* if let Ok(num) = num
ParsedDecimalToken(str, st, num) ==
    IF num.ok
    THEN IF IsSome(st.multiplier)
         THEN CHOOSE t \in {MultipliedToken(str, st, result) :
                               result \in {checked_mul(Unwrap(st.multiplier), num.value)}} :
                 TRUE
         ELSE NumberToken(str, st, NumberLiteral(num.value), FALSE)
    ELSE NumberToken(str, st, NumberErr, TRUE)

\* the end of the decimal branch, st being the locals after the loop
DecimalToken(str, st) ==
    IF st.panic THEN Panicked("number_str")
    ELSE IF st.digit_count > 0
    THEN CHOOSE t \in {Returned(ParsedDecimalToken(str, st, num)) :
                          num \in {IF st.e_already_added
                                   THEN Decimal_from_scientific(st.number_str)
                                   ELSE Decimal_from_str(st.number_str)}} : TRUE
    ELSE Returned(None)

\* let num: i64 = i64::from_str_radix(..).ok()?; Some(Token { NumberLiteral(num.into()) })
ParsedRadixToken(str, st, num) ==
    IF num.ok THEN NumberToken(str, st, NumberLiteral(num.value), FALSE) ELSE None

\* the end of the 0b and 0x branches
RadixToken(str, st, radix) ==
    IF st.panic THEN Panicked("number_str")
    ELSE IF st.end_index_before_last_whitespace > 2
    THEN CHOOSE t \in {Returned(ParsedRadixToken(str, st, num)) :
                          num \in {i64_from_str_radix(st.number_str, radix)}} : TRUE
    ELSE Returned(None)

\* the branches, st0 being the locals after the leading minus
NumberBranches(str, st0) ==
    IF str[1] = "π" THEN Returned(Some(Token(Take(str, 1), NumberLiteral(PI), FALSE)))
    ELSE IF starts_with(From(str, st0.i), <<"0", "b">>)
    THEN CHOOSE t \in {RadixToken(str, st, 2) :
                          st \in {BinLoop(str, SkipPrefix(st0), Len(str))}} : TRUE
    ELSE IF starts_with(From(str, st0.i), <<"0", "x">>)
    THEN CHOOSE t \in {RadixToken(str, st, 16) :
                          st \in {HexLoop(str, SkipPrefix(st0), Len(str))}} : TRUE
    ELSE IF is_ascii_digit(str[1]) \/ str[1] = "." \/ str[1] = "-"
    THEN CHOOSE t \in {DecimalToken(str, st) :
                          st \in {DecLoop(str, st0, Len(str) + 1)}} : TRUE
    ELSE Returned(None)

try_extract_number_literal(str) ==
    CHOOSE t \in {NumberBranches(str, st0) : st0 \in {NumberInit(str)}} : TRUE

(* ------------------------------ parse_line ------------------------------ *)
\* line, variable_names, line_index: the arguments of the call
\* dst: the destination vector; dst0: what it held when parse_line was called
\* index, can_be_unit: the locals of parse_line
\* pc: "call" on entry, "loop" between two iterations of the while loop,
\*     "done" after the return, "panic" after a panic (panic_site names it),
\*     "op" when the program calls methods of an operator, not parse_line
\* op_self: the OperatorTokenType whose methods are called (None if none is)
\* op_ret: what precedence() and assoc() returned for it (None before the call)
VARIABLES line, variable_names, line_index, dst, dst0, index, can_be_unit, pc, panic_site,
          op_self, op_ret

vars == <<line, variable_names, line_index, dst, dst0, index, can_be_unit, pc, panic_site,
          op_self, op_ret>>

NoReturn == [precedence |-> None, assoc |-> None]

\* dst.last().map(|token| matches!(token.typ, LineReference{..})).unwrap_or(false)
PrevWasLineref(d) ==
    IF Len(d) > 0 THEN d[Len(d)].typ.kind = "LineReference" ELSE FALSE

\* the value of parse_result: tok is the Option<Token>, by names the scanner
\* that produced it, panic the panic site when a scanner panicked
Parsed(tok, by) == [panic |-> "", tok |-> tok, by |-> by]
ScannerPanicked(site, by) == [panic |-> site, tok |-> None, by |-> by]

\* .or_else(|| try_extract_string_literal(..))
OrElseString(str) ==
    CHOOSE r \in {IF IsSome(s) THEN Parsed(s, "string") ELSE Parsed(None, "none") :
                     s \in {try_extract_string_literal(str)}} : TRUE

\* .or_else(|| try_extract_number_literal(..).or_else(..))
OrElseNumber(str) ==
    CHOOSE r \in {IF n.panic # "" THEN ScannerPanicked(n.panic, "number")
                  ELSE IF IsSome(n.tok) THEN Parsed(n.tok, "number")
                  ELSE OrElseString(str) :
                     n \in {try_extract_number_literal(str)}} : TRUE

\* variant: the number scanner is tried before the operator scanner
OrElseOperator_NumberFirst(str) ==
    CHOOSE r \in {IF n.panic = "" /\ IsSome(n.tok) THEN Parsed(n.tok, "number")
                  ELSE IF IsSome(o) THEN Parsed(o, "operator")
                  ELSE OrElseNumber(str) :
                     n \in {try_extract_number_literal(str)},
                     o \in {try_extract_operator(str)}} : TRUE

\* .or_else(|| try_extract_operator(..).or_else(..))
OrElseOperator(str) ==
    CHOOSE r \in {IF IsSome(o) THEN Parsed(o, "operator") ELSE OrElseNumber(str) :
                     o \in {try_extract_operator(str)}} : TRUE

\* .or_else(|| try_extract_unit(..).or_else(..))
OrElseUnit(str, mode) ==
    CHOOSE r \in {IF u.panic # "" THEN ScannerPanicked(u.panic, "unit")
                  ELSE IF IsSome(u.tok) THEN Parsed(u.tok, "unit")
                  ELSE OrElseOperator(str) :
                     u \in {try_extract_unit(str, mode)}} : TRUE

\* variant: the number scanner is tried before the variable scanner
OrElseVariable_NumberFirst(str, names, row_index, mode, prev_was_lineref) ==
    CHOOSE r \in {IF n.panic = "" /\ IsSome(n.tok) THEN Parsed(n.tok, "number")
                  ELSE IF IsSome(v) THEN Parsed(v, "variable")
                  ELSE OrElseUnit(str, mode) :
                     n \in {try_extract_number_literal(str)},
                     v \in {try_extract_variable_name(str, names, row_index,
                                                      prev_was_lineref)}} : TRUE

\* .or_else(|| try_extract_variable_name(..))
OrElseVariable(str, names, row_index, mode, prev_was_lineref) ==
    CHOOSE r \in {IF IsSome(v) THEN Parsed(v, "variable") ELSE OrElseUnit(str, mode) :
                     v \in {try_extract_variable_name(str, names, row_index,
                                                      prev_was_lineref)}} : TRUE

\* let parse_result = try_extract_comment(..).or_else(..)
ParseResult(str, names, row_index, mode, prev_was_lineref) ==
    CHOOSE r \in {IF IsSome(c) THEN Parsed(c, "comment")
                  ELSE OrElseVariable(str, names, row_index, mode, prev_was_lineref) :
                     c \in {try_extract_comment(str)}} : TRUE

\* variant: ParenClose resets the mode like the other operators
UpdateCanBeUnit_ParenResets(mode, token) ==
    CASE token.typ.kind = "StringLiteral" ->
            IF is_ascii_whitespace(token.ptr[1]) THEN mode ELSE "Not"
      [] token.typ.kind \in {"NumberLiteral", "NumberErr"} -> "ApplyToPrevToken"
      [] token.typ.kind = "Unit" -> "Not"
      [] token.typ.kind = "Operator" ->
            CASE token.typ.op.kind = "UnitConverter" -> "StandInItself"
              [] token.typ.op.kind = "Div" -> "StandInItself"
              [] OTHER -> "Not"
      [] token.typ.kind \in {"Variable", "LineReference"} -> "Not"

\* variant: an ApplyUnit operator keeps the mode as it was
UpdateCanBeUnit_UnitKeepsMode(mode, token) ==
    CASE token.typ.kind = "StringLiteral" ->
            IF is_ascii_whitespace(token.ptr[1]) THEN mode ELSE "Not"
      [] token.typ.kind \in {"NumberLiteral", "NumberErr"} -> "ApplyToPrevToken"
      [] token.typ.kind = "Unit" -> "Not"
      [] token.typ.kind = "Operator" ->
            CASE token.typ.op.kind \in {"ParenClose", "ApplyUnit"} -> mode
              [] token.typ.op.kind = "UnitConverter" -> "StandInItself"
              [] token.typ.op.kind = "Div" -> "StandInItself"
              [] OTHER -> "Not"
      [] token.typ.kind \in {"Variable", "LineReference"} -> "Not"

\* match &token.typ { ... }: the mode after the token
UpdateCanBeUnit(mode, token) ==
    CASE token.typ.kind = "StringLiteral" ->
            IF is_ascii_whitespace(token.ptr[1]) THEN mode ELSE "Not"
      [] token.typ.kind \in {"NumberLiteral", "NumberErr"} -> "ApplyToPrevToken"
      [] token.typ.kind = "Unit" -> "Not"
      [] token.typ.kind = "Operator" ->
            CASE token.typ.op.kind = "ParenClose" -> mode
              [] token.typ.op.kind = "UnitConverter" -> "StandInItself"
              [] token.typ.op.kind = "Div" -> "StandInItself"
              [] OTHER -> "Not"
      [] token.typ.kind \in {"Variable", "LineReference"} -> "Not"

\* variant: a '#' anywhere in the line makes it a header
IsHeaderLine_AnyPosition(str) == \E k \in 1..Len(str) : str[k] = "#"

\* if line.starts_with(&['#'])
IsHeaderLine(str) == starts_with(str, <<"#">>)

\* the header branch: one Header token spanning the line, then return
ParseHeader ==
    /\ pc = "call"
    /\ IsHeaderLine(line)
    /\ dst' = Append(dst, Token(line, Header, FALSE))
    /\ pc' = "done"
    /\ UNCHANGED <<line, variable_names, line_index, dst0, index, can_be_unit, panic_site>>
    /\ UNCHANGED <<op_self, op_ret>>

\* control is at the head of the while loop
InLoop == pc = "loop" \/ (pc = "call" /\ ~IsHeaderLine(line))

\* variant: the cursor skips one character more than the token's span
Iteration_SkipChar(r) ==
    IF r.panic # ""
    THEN /\ pc' = "panic"
         /\ panic_site' = r.panic
         /\ UNCHANGED <<dst, index, can_be_unit>>
    ELSE IF IsSome(r.tok)
    THEN IF Unwrap(r.tok).typ.kind = "Header"
         THEN /\ pc' = "panic"
              /\ panic_site' = "header"
              /\ UNCHANGED <<dst, index, can_be_unit>>
         ELSE /\ can_be_unit' = UpdateCanBeUnit(can_be_unit, Unwrap(r.tok))
              /\ index' = index + Len(Unwrap(r.tok).ptr) + 1
              /\ dst' = Append(dst, Unwrap(r.tok))
              /\ pc' = "loop"
              /\ UNCHANGED panic_site
    ELSE /\ pc' = "done"
         /\ UNCHANGED <<dst, index, can_be_unit, panic_site>>

\* variant: the cursor is not advanced
Iteration_NoAdvance(r) ==
    IF r.panic # ""
    THEN /\ pc' = "panic"
         /\ panic_site' = r.panic
         /\ UNCHANGED <<dst, index, can_be_unit>>
    ELSE IF IsSome(r.tok)
    THEN IF Unwrap(r.tok).typ.kind = "Header"
         THEN /\ pc' = "panic"
              /\ panic_site' = "header"
              /\ UNCHANGED <<dst, index, can_be_unit>>
         ELSE /\ can_be_unit' = UpdateCanBeUnit(can_be_unit, Unwrap(r.tok))
              /\ index' = index
              /\ dst' = Append(dst, Unwrap(r.tok))
              /\ pc' = "loop"
              /\ UNCHANGED panic_site
    ELSE /\ pc' = "done"
         /\ UNCHANGED <<dst, index, can_be_unit, panic_site>>

\* the effect of an iteration whose parse_result is r
Iteration(r) ==
    IF r.panic # ""
    THEN /\ pc' = "panic"
         /\ panic_site' = r.panic
         /\ UNCHANGED <<dst, index, can_be_unit>>
    ELSE IF IsSome(r.tok)
    THEN IF Unwrap(r.tok).typ.kind = "Header"
         THEN /\ pc' = "panic"
              /\ panic_site' = "header"
              /\ UNCHANGED <<dst, index, can_be_unit>>
         ELSE /\ can_be_unit' = UpdateCanBeUnit(can_be_unit, Unwrap(r.tok))
              /\ index' = index + Len(Unwrap(r.tok).ptr)
              /\ dst' = Append(dst, Unwrap(r.tok))
              /\ pc' = "loop"
              /\ UNCHANGED panic_site
    ELSE /\ pc' = "done"
         /\ UNCHANGED <<dst, index, can_be_unit, panic_site>>

\* let parse_result = ... for the current locals
CurrentResult ==
    CHOOSE r \in {ParseResult(str, variable_names, line_index, can_be_unit,
                              PrevWasLineref(dst)) : str \in {From(line, index)}} : TRUE

\* one iteration of the while loop
LoopStep ==
    /\ InLoop
    /\ index < Len(line)
    /\ \E r \in {CurrentResult} : Iteration(r)
    /\ UNCHANGED <<line, variable_names, line_index, dst0, op_self, op_ret>>

\* an iteration in a build with debug assertions, in which the string
\* scanner runs over a character whose `as u8` value is 0
LoopStepDebugAssert ==
    /\ InLoop
    /\ index < Len(line)
    /\ \E r \in {CurrentResult} :
          /\ r.by \in {"string", "none"}
          /\ DebugAssertFails(From(line, index))
    /\ pc' = "panic"
    /\ panic_site' = "debug_assert"
    /\ UNCHANGED <<line, variable_names, line_index, dst, dst0, index, can_be_unit>>
    /\ UNCHANGED <<op_self, op_ret>>

\* while index < line.len() is false: return
LoopExit ==
    /\ InLoop
    /\ ~(index < Len(line))
    /\ pc' = "done"
    /\ UNCHANGED <<line, variable_names, line_index, dst, dst0, index, can_be_unit, panic_site>>
    /\ UNCHANGED <<op_self, op_ret>>

Next == ParseHeader \/ LoopStep \/ LoopStepDebugAssert \/ LoopExit

(* -------------------------------- inputs -------------------------------- *)
RECURSIVE LinesOf(_, _)
\* the concatenations of at most n pieces
LinesOf(pieces, n) ==
    IF n = 0 THEN {<< >>}
    ELSE LinesOf(pieces, n - 1) \cup
         {l \o p : l \in LinesOf(pieces, n - 1), p \in pieces}

\* n copies of the character c
Rep(c, n) == [k \in 1..n |-> c]

Var(name) == Some([name |-> name])

\* a variable table of MaxLineCount + 1 slots, the first ones holding names
TableOf(names) ==
    [k \in 1..(MaxLineCount + 1) |-> IF k <= Len(names) THEN names[k] ELSE None]

\* the state at the call of parse_line
InitWith(lines, tables, indexes, dsts) ==
    /\ line \in lines
    /\ variable_names \in tables
    /\ line_index \in indexes
    /\ dst0 \in dsts
    /\ dst = dst0
    /\ index = 0
    /\ can_be_unit = "Not"
    /\ pc = "call"
    /\ panic_site = ""
    /\ op_self = None
    /\ op_ret = NoReturn

\* a header line, a line with the character U+0000, and the line of the
\* characters that end a word
SpecialLines ==
    {<<"#", " ", "1", "+", "k", "g">>, <<"a", NulChar, " ", "1">>,
     <<"=", "%", "/", "+", "-", "*", "^", "(", ")", "[", "]">>}

\* lines with long or overflowing numerals
NumeralLines ==
    {Rep("1", NumberStrCap),
     Rep("1", NumberStrCap + 1),
     <<"0", "b">> \o Rep("1", NumberStrCap + 1),
     Rep("9", 30) \o <<" ", "k", "g", " ", "+", "1">>,
     Rep("9", 29) \o <<"k">>,
     Rep("9", 27) \o <<"M", " ", "k", "g">>,
     <<"1", "e", "9", "9", "/", "s">>,
     <<"1", "e", "-", "2", "9", "+", "1">>,
     <<"0", "x", "8">> \o Rep("0", 15) \o <<" ", "+", " ", "1">>,
     <<"0", "x", "7">> \o Rep("0", 15) \o <<" ", "k", "g">>,
     <<"0", "b">> \o Rep("1", 64) \o <<" ", "1">>,
     <<"0", "b">> \o Rep("1", 63) \o <<"/", "m">>}

CommonLines == SpecialLines \cup NumeralLines

Pieces ==
    {<<"1">>, <<" ">>, <<"k", "g">>, <<"/">>, <<")">>, <<"i", "n", " ">>, <<"b">>, <<"+">>,
     <<"&", "[", "1", "]">>, <<"m", "^", "2", " ">>}

MainTable == TableOf(<<Var(<<"b">>), Var(<<"&", "[", "1", "]">>)>>)

Init == InitWith(LinesOf(Pieces, MaxPieces) \cup CommonLines, {MainTable}, {MaxLineCount}, {<< >>})

Spec == Init /\ [][Next]_vars

\* parse_line runs to its end without being preempted for ever
FairSpec == Spec /\ WF_vars(Next)

(* variable tables and lines about names *)
VarPieces ==
    {<<"b">>, <<"0">>, <<"(">>, <<" ">>, <<"s", "u", "m">>, <<"&", "[", "1", "]">>}

VarTables ==
    {TableOf(<<Var(<<"b">>), Var(<<"b", "0">>)>>),
     TableOf(<<Var(<<"b", " ", "b">>), Var(<<"b">>)>>),
     TableOf(<<Var(<<"b">>), Var(<<"b", " ", "b">>)>>),
     TableOf(<<Var(<<"s", "u", "m", " ", "b">>), Var(<<"&", "[", "1", "]">>)>>),
     TableOf(<<None, Var(<<"b">>)>>),
     TableOf(<<Var(<<"b">>), Var(<<"b">>)>>),
     TableOf(<<Var(<<"s", "u", "m">>), Var(<<"s", "u", "m">>)>>)}

InitVar ==
    InitWith(LinesOf(VarPieces, MaxPieces) \cup SpecialLines, VarTables, 0..MaxLineCount,
             {<< >>})

SpecVar == InitVar /\ [][Next]_vars

(* destination vectors that already hold tokens *)
DstPieces == {<<"&", "[", "1", "]">>, <<" ">>, <<"1">>, <<"b">>, <<"#">>, <<"&", "[">>}

\* a table with a name that is the two characters of a line reference's start
RefTable == TableOf(<<Var(<<"&", "[">>), Var(<<"&", "[", "1", "]">>)>>)

DstInits ==
    {<< >>,
     <<Token(<<"&", "[", "1", "]">>, LineReference(1), FALSE)>>,
     <<Token(<<"1">>, NumberLiteral(Dec(FALSE, <<1>>, << >>)), FALSE)>>}

InitDst ==
    InitWith(LinesOf(DstPieces, MaxPieces) \cup SpecialLines, {MainTable, RefTable},
             {MaxLineCount}, DstInits)

SpecDst == InitDst /\ [][Next]_vars

(* lines in which several scanners match at the same cursor *)
OrderPieces ==
    {<<"1">>, <<" ">>, <<"b">>, <<"/">>, <<"k", "g">>, <<"-">>, <<"0", "x">>, <<"0", "b">>,
     <<"e", "-">>, <<"^">>}

\* lines with a '-' around an exponent marker
ExponentLines ==
    {<<"1", "e", " ", "-", "1">>, <<"1", " ", "e", "-", "1">>, <<"1", "e", "-", "1", "-", "1">>,
     <<"1", "e", "1", "-", "1">>, <<"2", "^", "-", "2">>, <<"-", "1", ".", "5", "k">>}

\* a variable whose name starts like a numeral, and one named like a unit
OrderTable == TableOf(<<Var(<<"1", " ", "b">>), Var(<<"k", "g">>)>>)

InitOrder ==
    InitWith(LinesOf(OrderPieces, MaxPieces) \cup SpecialLines \cup ExponentLines,
             {OrderTable}, {MaxLineCount}, {<< >>})

SpecOrder == InitOrder /\ [][Next]_vars

(* lines of numerals *)
\* the characters of a decimal literal, and a letter
NumPieces ==
    {<<"1">>, <<"0">>, <<" ">>, <<".">>, <<"e">>, <<"-">>, <<"k">>, <<"M">>, <<"a">>}

\* the prefixes and characters of a binary and of a hexadecimal literal,
\* a digit of neither radix and a letter that is no hexadecimal digit
RadixPieces ==
    {<<"0", "b">>, <<"0", "x">>, <<"0">>, <<"1">>, <<" ">>, <<"_">>, <<"A">>, <<"g">>,
     <<"2">>}

\* numerals with longer runs of digits, whitespace, markers and separators
NumLines ==
    {<<"1", "2", " ", "3", "4", " ", "5", " ", " ", " ", " ", " ", " ", " ", " ", "6">>,
     <<".", "2", ".", "0">>,
     <<"1", "2", "3", ".", "4", "5", "6", ".", "3">>,
     <<"3", "e">>,
     <<"3", "e", "-", "-", "3">>,
     <<"3", "e", "-", "3", "-">>,
     <<"2", ".", "3", "e", "4", "e", "5">>,
     <<"1", "k">>,
     <<"3", "M", "+", "1", "k">>,
     <<"2", "k", "a", "l", "a", "p">>,
     <<"k">>,
     <<"0", "b", "0", "1", "0", "1", " ", "1", "0", "1", "0">>,
     <<"0", "b", "0", "1", "0", "1", " ", "1", "0", "1", " ", " ", " ", " ", " ", "1">>,
     <<"0", "b", "a">>,
     <<"0", "x", "A", "A", " ", "B", "B">>,
     <<"0", "x", "_", "A", "A", "B", "_">>,
     <<"0", "x", "A", "B", "_", "C", "d", "_", "e", "_", "_", "_", "_", "f">>,
     <<"1", "e", "1", "k">>, <<"1", ".", "5", "M", " ", "1">>}

InitNum ==
    InitWith(LinesOf(NumPieces, MaxPieces) \cup LinesOf(RadixPieces, MaxPieces)
                 \cup NumLines \cup SpecialLines,
             {MainTable}, {0}, {<< >>})

SpecNum == InitNum /\ [][Next]_vars

(* lines of words, word operators and whitespace *)
WordPieces ==
    {<<"A", "N", "D">>, <<"O", "R">>, <<"X", "O", "R">>, <<"N", "O", "T">>, <<"i", "n">>,
     <<"(">>, <<" ">>, <<"\t">>, <<"a">>, <<"<">>, <<">">>, <<",">>, <<";">>, <<"1">>}

InitWord ==
    InitWith(LinesOf(WordPieces, MaxPieces) \cup SpecialLines, {MainTable}, {0}, {<< >>})

SpecWord == InitWord /\ [][Next]_vars

(* ------------- the methods of OperatorTokenType as operations ----------- *)
\* the variants of OperatorTokenType without payload
PlainOperatorKinds ==
    {"Comma", "Add", "UnaryPlus", "Sub", "UnaryMinus", "Mult", "Div", "Perc", "BinAnd",
     "BinOr", "BinXor", "BinNot", "Pow", "ParenOpen", "ParenClose", "BracketOpen",
     "Semicolon", "BracketClose", "ShiftLeft", "ShiftRight", "Assign", "UnitConverter"}

\* unit descriptors, with and without an exponent
UnitOutputs == {[name |-> n, exp |-> e] : n \in UnitNames, e \in {<< >>, <<"2">>}}

\* crate::functions::FnType is outside this file: two opaque function types
FnTypes == {"Nth", "Sum"}

OperatorTokenTypes ==
    {Op(k) : k \in PlainOperatorKinds}
        \cup {ApplyUnit(u) : u \in UnitOutputs}
        \cup {Matrix(r, c) : r \in 1..MaxDim, c \in 1..MaxDim}
        \cup {Fn(n, t) : n \in 0..MaxDim, t \in FnTypes}

\* an operator value whose methods are about to be called
InitOp ==
    /\ line = << >>
    /\ variable_names = MainTable
    /\ line_index = 0
    /\ dst0 = << >>
    /\ dst = dst0
    /\ index = 0
    /\ can_be_unit = "Not"
    /\ pc = "op"
    /\ panic_site = ""
    /\ op_self \in OperatorTokenTypes
    /\ op_ret = NoReturn

\* a call of op_self.precedence()
CallPrecedence ==
    /\ pc = "op"
    /\ op_ret.precedence = None
    /\ op_ret' = [op_ret EXCEPT !.precedence = Some(precedence(op_self))]
    /\ UNCHANGED <<line, variable_names, line_index, dst, dst0, index, can_be_unit, pc,
                   panic_site, op_self>>

\* a call of op_self.assoc()
CallAssoc ==
    /\ pc = "op"
    /\ op_ret.assoc = None
    /\ op_ret' = [op_ret EXCEPT !.assoc = Some(assoc(op_self))]
    /\ UNCHANGED <<line, variable_names, line_index, dst, dst0, index, can_be_unit, pc,
                   panic_site, op_self>>

NextOp == CallPrecedence \/ CallAssoc

SpecOp == InitOp /\ [][NextOp]_vars

(* ------------------- parse_line as a function of its inputs ------------- *)
RECURSIVE ParseLoop(_, _, _, _, _, _)
\* the rest of the while loop after an iteration whose parse_result is r
ParseLoopAfter(l, names, row_index, d, idx, mode, r) ==
    IF r.panic # "" \/ ~IsSome(r.tok) THEN d
    ELSE CHOOSE after \in {ParseLoop(l, names, row_index, d2, idx + Len(Unwrap(r.tok).ptr), m) :
                              d2 \in {Append(d, Unwrap(r.tok))},
                              m \in {UpdateCanBeUnit(mode, Unwrap(r.tok))}} : TRUE

\* the while loop from the locals idx and mode, d being the destination vector
ParseLoop(l, names, row_index, d, idx, mode) ==
    IF ~(idx < Len(l)) THEN d
    ELSE CHOOSE after \in {ParseLoopAfter(l, names, row_index, d, idx, mode, r) :
                              r \in {ParseResult(str, names, row_index, mode,
                                                 PrevWasLineref(d)) :
                                        str \in {From(l, idx)}}} : TRUE

\* the destination vector after parse_line(l, names, d, .., row_index, ..)
parse_line(l, names, d, row_index) ==
    IF IsHeaderLine(l) THEN Append(d, Token(l, Header, FALSE))
    ELSE ParseLoop(l, names, row_index, d, 0, "Not")

(* ============================== properties ============================== *)
\* the tokens this call has appended to dst
AppendedTokens == SubSeq(dst, Len(dst0) + 1, Len(dst))

RECURSIVE Spans(_)
\* the spans of the tokens of d, concatenated in order
Spans(d) == IF d = << >> THEN << >> ELSE d[1].ptr \o Spans(Tail(d))

\* the text at the cursor
AtCursor == From(line, index)

\* this step is a loop iteration that appends a token; Appended is the token
TokenAppended == pc' = "loop" /\ Len(dst') = Len(dst) + 1
Appended == dst'[Len(dst')]

\* the last token of dst and the text at the cursor where it was scanned
LastToken == dst[Len(dst)]
BeforeLast == From(line, index - Len(LastToken.ptr))

IsUnitToken(t) ==
    \/ t.typ.kind = "Unit"
    \/ t.typ.kind = "Operator" /\ t.typ.op.kind = "ApplyUnit"

IsWhitespaceOnly(w) == \A k \in 1..Len(w) : is_ascii_whitespace(w[k])

(* ---------------------------------- C1 ---------------------------------- *)
\* C1: with dst initially empty, the spans of the emitted tokens, concatenated
\* in order, are the characters of the line up to the cursor between two
\* iterations, and the whole line once parse_line has returned.
C1_SpansReproduceLine ==
    /\ pc = "loop" => Spans(AppendedTokens) = Take(line, index)
    /\ pc = "done" => Spans(AppendedTokens) = line

\* a line tokenized to its end into three tokens or more, one of them a
\* numeral or unit
C1_Witness ==
    /\ pc = "done"
    /\ Len(AppendedTokens) >= 3
    /\ \E k \in 1..Len(dst) : dst[k].typ.kind = "NumberLiteral" \/ IsUnitToken(dst[k])

(* ---------------------------------- C2 ---------------------------------- *)
\* C2: parse_line never aborts: no panic, no out-of-bounds index, for any line.
C2_NeverAborts == pc # "panic"

(* ---------------------------------- C3 ---------------------------------- *)
\* a loop iteration appends one token of at least one character and moves the
\* cursor forward by its length, within the line; the loop is left without a
\* token only at the end of the line or where no scanner matches
C3_Step ==
    /\ pc' = "loop" =>
          /\ Len(dst') = Len(dst) + 1
          /\ Len(Appended.ptr) >= 1
          /\ index' = index + Len(Appended.ptr)
          /\ index' > index
          /\ index' <= Len(line)
    /\ (pc' = "done" /\ Len(dst') = Len(dst)) =>
          \/ index = Len(line)
          \/ ~IsSome(CurrentResult.tok)

\* C3: parse_line terminates on every line: every token has a span of at least
\* one character, the cursor strictly increases on each iteration, and the
\* call ends (by returning, or by the abort of C2).
C3_Terminates == [][C3_Step]_vars /\ <>(pc \in {"done", "panic"})

\* a call that returned at the end of a line after two iterations or more
C3_Witness ==
    /\ pc = "done"
    /\ index = Len(line)
    /\ index >= 2
    /\ Len(AppendedTokens) >= 2
    /\ \A k \in 1..Len(dst) : dst[k].typ.kind # "Header"

(* ---------------------------------- C4 ---------------------------------- *)
\* C4: the tokens appended by parse_line are those it appends to an empty
\* vector for the same line, variable table and line_index, whatever dst held.
C4_SameTokensWhateverDst ==
    pc = "done" => AppendedTokens = parse_line(line, variable_names, << >>, line_index)

(* ---------------------------------- C5 ---------------------------------- *)
\* the mode after token t, the mode before it being mode
ExpectedMode(mode, t) ==
    IF t.typ.kind \in {"NumberLiteral", "NumberErr"} THEN "ApplyToPrevToken"
    ELSE IF t.typ.kind = "Operator" /\ t.typ.op.kind \in {"Div", "UnitConverter"}
    THEN "StandInItself"
    ELSE IF t.typ.kind = "Operator" /\ t.typ.op.kind = "ParenClose" THEN mode
    ELSE IF t.typ.kind = "StringLiteral" /\ IsWhitespaceOnly(t.ptr) THEN mode
    ELSE "Not"

\* C5: the mode is Not at the start of the line and, after each emitted token,
\* is ApplyToPrevToken after a numeral, StandInItself after Div or
\* UnitConverter, unchanged after ParenClose and whitespace, Not otherwise.
C5_ModeTransitions ==
    /\ can_be_unit = "Not"
    /\ [][TokenAppended => can_be_unit' = ExpectedMode(can_be_unit, Appended)]_vars

\* the mode StandInItself kept across a ParenClose, and ApplyToPrevToken kept
\* across whitespace
C5_Witness ==
    /\ Len(dst) >= 2
    /\ \/ /\ can_be_unit = "StandInItself"
          /\ LastToken.typ.kind = "Operator"
          /\ LastToken.typ.op.kind = "ParenClose"
       \/ /\ can_be_unit = "ApplyToPrevToken"
          /\ LastToken.typ.kind = "StringLiteral"

(* ---------------------------------- C6 ---------------------------------- *)
\* the span of a unit expression of parsed_len characters at str
TrimmedSpan(str, parsed_len) ==
    SubSeq(str, 1, CHOOSE n \in 0..parsed_len :
                      /\ IsWhitespaceOnly(SubSeq(str, n + 1, parsed_len))
                      /\ (n > 0 => ~is_ascii_whitespace(str[n])))

\* the unit scanner is attempted on the text at the cursor
UnitAttempted ==
    /\ can_be_unit # "Not"
    /\ ~is_ascii_whitespace(AtCursor[1])
    /\ CurrentResult.by \notin {"comment", "variable"}

\* C6: a unit token is emitted only when the mode is not Not and the cursor is
\* not at whitespace, and then whenever the Unit Grammar matches: ApplyUnit
\* under ApplyToPrevToken, Unit under StandInItself, the span being the match
\* without its trailing whitespace (never empty, never ending in whitespace).
C6_UnitScanner ==
    [][TokenAppended =>
          /\ IsUnitToken(Appended) =>
                /\ UnitAttempted
                /\ UnitParse(AtCursor).parsed_len > 0
                /\ Appended.typ.kind = "Operator" <=> can_be_unit = "ApplyToPrevToken"
                /\ Appended.typ.kind = "Unit" <=> can_be_unit = "StandInItself"
                /\ Appended.typ = (IF can_be_unit = "ApplyToPrevToken"
                                   THEN Operator(ApplyUnit(UnitParse(AtCursor).unit))
                                   ELSE Unit(UnitParse(AtCursor).unit))
                /\ Appended.ptr = TrimmedSpan(AtCursor, UnitParse(AtCursor).parsed_len)
                /\ Len(Appended.ptr) >= 1
                /\ ~is_ascii_whitespace(Appended.ptr[Len(Appended.ptr)])
          /\ (UnitAttempted /\ UnitParse(AtCursor).parsed_len > 0) => IsUnitToken(Appended)
    ]_vars

\* a unit token whose match had trailing whitespace: the whitespace follows
\* the token in the line
C6_Witness ==
    /\ Len(dst) >= 2
    /\ IsUnitToken(LastToken)
    /\ index < Len(line)
    /\ is_ascii_whitespace(line[index + 1])
    /\ UnitParse(BeforeLast).parsed_len > Len(LastToken.ptr)

(* ---------------------------------- C7 ---------------------------------- *)
\* a numeral starts at str
IsNumeralStart(str) ==
    \/ starts_with(str, <<"0", "b">>)
    \/ starts_with(str, <<"0", "x">>)
    \/ is_ascii_digit(str[1])

\* the locals of the number scanner after its loop on str
ScannedNumeral(str) ==
    IF starts_with(str, <<"0", "b">>) THEN BinLoop(str, SkipPrefix(NumberInit(str)), Len(str))
    ELSE IF starts_with(str, <<"0", "x">>)
    THEN HexLoop(str, SkipPrefix(NumberInit(str)), Len(str))
    ELSE DecLoop(str, NumberInit(str), Len(str) + 1)

\* the digits st of a numeral at str do not make a value of its type
Overflows(str, st) ==
    IF starts_with(str, <<"0", "b">>)
    THEN st.end_index_before_last_whitespace > 2 /\ ~i64_from_str_radix(st.number_str, 2).ok
    ELSE IF starts_with(str, <<"0", "x">>)
    THEN st.end_index_before_last_whitespace > 2 /\ ~i64_from_str_radix(st.number_str, 16).ok
    ELSE /\ is_ascii_digit(str[1])
         /\ st.digit_count > 0
         /\ IF st.e_already_added THEN ~Decimal_from_scientific(st.number_str).ok
            ELSE \/ ~Decimal_from_str(st.number_str).ok
                 \/ /\ IsSome(st.multiplier)
                    /\ ~IsSome(checked_mul(Unwrap(st.multiplier),
                                           Decimal_from_str(st.number_str).value))

\* the token of an overflowing numeral scanned as st at str
IsNumberErrOf(t, str, st) ==
    /\ t.typ = NumberErr
    /\ t.has_error
    /\ t.ptr = Take(str, st.end_index_before_last_whitespace)

\* C7: a numeral at the cursor whose value overflows (decimal, SI multiplier,
\* binary or hex) is emitted as one NumberErr token with the error flag set
\* and the consumed characters as span, and the loop goes on.
C7_OverflowIsNumberErr ==
    [][(/\ InLoop
        /\ index < Len(line)
        /\ CurrentResult.by \in {"number", "string", "none"}
        /\ IsNumeralStart(AtCursor)
        /\ ~ScannedNumeral(AtCursor).panic
        /\ Overflows(AtCursor, ScannedNumeral(AtCursor))
        /\ pc' # "panic")
          => /\ TokenAppended
             /\ IsNumberErrOf(Appended, AtCursor, ScannedNumeral(AtCursor))
    ]_vars

(* ------------------------------ C8, C9, C10 ----------------------------- *)
\* the name matches at str under the boundary rule: every character equal,
\* the next character, if any, neither '(' nor alphanumeric
Matches(str, name) ==
    /\ Len(name) <= Len(str)
    /\ SubSeq(str, 1, Len(name)) = name
    /\ Len(name) < Len(str) =>
          /\ str[Len(name) + 1] # "("
          /\ ~is_alphanumeric(str[Len(name) + 1])

NameOf(k) == variable_names[k + 1][1].name

\* the indices of the table entries visible to this line that match at str
VisibleMatches(str) ==
    {k \in 0..(line_index - 1) :
        /\ variable_names[k + 1] # << >>
        /\ Len(NameOf(k)) > 0
        /\ Matches(str, NameOf(k))}

\* the visible matching entries with the longest name
LongestMatches(str) ==
    {k \in VisibleMatches(str) : \A j \in VisibleMatches(str) : Len(NameOf(j)) <= Len(NameOf(k))}

\* token t is the entry of the longest name matching at str
IsLongestMatch(t, str) ==
    /\ t.typ.kind \in {"Variable", "LineReference"}
    /\ t.typ.var_index \in LongestMatches(str)
    /\ t.ptr = NameOf(t.typ.var_index)

\* the reserved word sum at str, followed by a space or the end of the line
ReservedSumAt(str) ==
    /\ Len(str) >= 3
    /\ SubSeq(str, 1, 3) = <<"s", "u", "m">>
    /\ Len(str) > 3 => str[4] = " "

\* the longest match at str is a line reference and follows a LineReference token
RepeatedLineRefAt(str) ==
    /\ \E k \in LongestMatches(str) : Len(NameOf(k)) > 2
    /\ Len(str) >= 2 /\ str[1] = "&" /\ str[2] = "["
    /\ Len(dst) > 0
    /\ LastToken.typ.kind = "LineReference"

\* the variable scanner is run on the text at the cursor
VariableAttempted == InLoop /\ index < Len(line) /\ CurrentResult.by # "comment"

\* C8 as stated: whenever visible entries match at the cursor, the token
\* emitted is the entry with the longest name.
C8_LongestMatchAlways ==
    [][(VariableAttempted /\ VisibleMatches(AtCursor) # {} /\ TokenAppended)
          => IsLongestMatch(Appended, AtCursor)]_vars

\* C8 amended: whenever visible entries match at the cursor, the token emitted
\* is the entry with the longest name, except that the reserved word sum
\* (followed by a space or the end of the line) is emitted as the sum variable
\* over three characters, and that a line reference directly after a
\* LineReference token is not emitted as a variable token.
C8_LongestMatch ==
    [][(VariableAttempted /\ TokenAppended) =>
          IF ReservedSumAt(AtCursor)
          THEN /\ Appended.typ = Variable(SUM_VARIABLE_INDEX)
               /\ Appended.ptr = <<"s", "u", "m">>
          ELSE IF VisibleMatches(AtCursor) = {}
          THEN Appended.typ.kind \notin {"Variable", "LineReference"}
          ELSE IF RepeatedLineRefAt(AtCursor)
          THEN Appended.typ.kind \notin {"Variable", "LineReference"}
          ELSE IsLongestMatch(Appended, AtCursor)
    ]_vars

\* two visible entries of different lengths matched at the cursor, and the
\* token is the longer one
C8_Witness ==
    /\ Len(dst) >= 1
    /\ LastToken.typ.kind = "Variable"
    /\ ~ReservedSumAt(BeforeLast)
    /\ \E j \in VisibleMatches(BeforeLast) : Len(NameOf(j)) < Len(LastToken.ptr)

\* the character after the k-th token of dst, "" at the end of the line
CharAfter(k) ==
    IF Len(Spans(SubSeq(dst, 1, k))) < Len(line)
    THEN line[Len(Spans(SubSeq(dst, 1, k))) + 1]
    ELSE ""

\* C9: at every cursor, a table entry passes the scanner's candidate test if
\* and only if its name matches under the boundary rule; a table entry emitted
\* as a token matches under the rule, and no Variable token is followed by '('.
C9_MatchRule ==
    /\ (InLoop /\ index < Len(line)) =>
          \A k \in 1..Len(variable_names) :
              variable_names[k] # << >> =>
                  (NameMatches(AtCursor, variable_names[k][1].name)
                       <=> Matches(AtCursor, variable_names[k][1].name))
    /\ \A k \in 1..Len(dst) :
          /\ dst[k].typ.kind = "Variable" => CharAfter(k) # "("
          /\ (dst[k].typ.kind \in {"Variable", "LineReference"}
                /\ dst[k].ptr # <<"s", "u", "m">>) =>
                \/ CharAfter(k) = ""
                \/ ~is_alphanumeric(CharAfter(k))

\* with variable b, the text b( is emitted as StringLiteral b, then ParenOpen
C9_Witness ==
    /\ Len(dst) >= 2
    /\ \E k \in 1..(Len(dst) - 1) :
          /\ dst[k].typ = StringLiteral
          /\ dst[k].ptr = <<"b">>
          /\ dst[k + 1].typ = Operator(Op("ParenOpen"))
          /\ \E j \in 0..(line_index - 1) : variable_names[j + 1] = Var(<<"b">>)

\* C10: every Variable or LineReference token carries the reserved sum index
\* or the index of a non-empty table slot below line_index.
C10_VisibleOnly ==
    \A k \in 1..Len(AppendedTokens) :
        AppendedTokens[k].typ.kind \in {"Variable", "LineReference"} =>
            \/ /\ AppendedTokens[k].typ.kind = "Variable"
               /\ AppendedTokens[k].typ.var_index = SUM_VARIABLE_INDEX
               /\ AppendedTokens[k].ptr = <<"s", "u", "m">>
            \/ /\ AppendedTokens[k].typ.var_index < line_index
               /\ variable_names[AppendedTokens[k].typ.var_index + 1] # << >>

\* a Variable token of a visible entry, emitted where an entry that is not
\* visible to the line matches, too
C10_Witness ==
    /\ Len(dst) >= 1
    /\ LastToken.typ.kind = "Variable"
    /\ LastToken.typ.var_index < line_index
    /\ \E j \in line_index..MaxLineCount :
          /\ variable_names[j + 1] # << >>
          /\ Matches(BeforeLast, variable_names[j + 1][1].name)

(* ---------------------------------- C11 --------------------------------- *)
\* the greatest element of a non-empty set of integers
MaxIndex(S) == CHOOSE k \in S : \A j \in S : j <= k

\* two or more visible entries match at str with the longest name
TieAt(str) == Cardinality(LongestMatches(str)) >= 2

\* token t is a table entry's token and carries the highest index among the
\* visible entries that match at str with the longest name
IsLaterDeclared(t, str) ==
    /\ t.typ.kind \in {"Variable", "LineReference"}
    /\ t.typ.var_index = MaxIndex(LongestMatches(str))
    /\ t.ptr = NameOf(MaxIndex(LongestMatches(str)))

\* C11 as stated: whenever two or more visible entries match at the cursor
\* with names of the same maximal length, the emitted token carries the
\* highest index among them.
C11_LaterDeclaredAlways ==
    [][(VariableAttempted /\ TokenAppended /\ TieAt(AtCursor))
          => IsLaterDeclared(Appended, AtCursor)]_vars

\* C11 amended: whenever two or more visible entries match at the cursor with
\* names of the same maximal length, the emitted token carries the highest
\* index among them, except that the reserved word sum (followed by a space or
\* the end of the line) is emitted with the reserved sum index, and that a
\* line reference directly after a LineReference token is not emitted as a
\* variable token.
C11_LaterDeclaredWins ==
    [][(VariableAttempted /\ TokenAppended /\ TieAt(AtCursor)) =>
          IF ReservedSumAt(AtCursor)
          THEN Appended.typ = Variable(SUM_VARIABLE_INDEX)
          ELSE IF RepeatedLineRefAt(AtCursor)
          THEN Appended.typ.kind \notin {"Variable", "LineReference"}
          ELSE IsLaterDeclared(Appended, AtCursor)
    ]_vars

\* two visible entries of the same name matched at the cursor, and the token
\* carries the index of the second one
C11_Witness ==
    /\ Len(dst) >= 1
    /\ LastToken.typ.kind = "Variable"
    /\ ~ReservedSumAt(BeforeLast)
    /\ TieAt(BeforeLast)
    /\ LastToken.typ.var_index = 1
    /\ 0 \in LongestMatches(BeforeLast)

(* ---------------------------------- C12 --------------------------------- *)
\* the text that was at the cursor when the k-th token of dst was scanned
\* (k is the position of a token appended by this call)
TextAt(k) == From(line, Len(Spans(SubSeq(dst, Len(dst0) + 1, k - 1))))

\* the longest visible match at str has the shape of a line reference
LineRefShapedAt(str) ==
    /\ Len(str) >= 2 /\ str[1] = "&" /\ str[2] = "["
    /\ \E j \in LongestMatches(str) : Len(NameOf(j)) > 2

\* the digits between the brackets of the line reference matched at str
LineRefDigits(str) ==
    SubSeq(str, 3, Len(NameOf(MaxIndex(LongestMatches(str)))) - 1)

IsLineRef(t) == t.typ.kind = "LineReference"

\* the tokens from position k on are StringLiteral '&', BracketOpen, the
\* numeral of the reference, BracketClose, as far as dst goes (the numeral
\* provided that no visible variable name matches at the digits)
FallsBackFrom(k) ==
    /\ dst[k] = Token(<<"&">>, StringLiteral, FALSE)
    /\ k + 1 <= Len(dst) => dst[k + 1] = Token(<<"[">>, Operator(Op("BracketOpen")), FALSE)
    /\ (k + 2 <= Len(dst) /\ VisibleMatches(TextAt(k + 2)) = {}) =>
          /\ dst[k + 2].typ.kind = "NumberLiteral"
          /\ dst[k + 2].ptr = LineRefDigits(TextAt(k))
    /\ (k + 3 <= Len(dst) /\ VisibleMatches(TextAt(k + 2)) = {}) =>
          dst[k + 3] = Token(<<"]">>, Operator(Op("BracketClose")), FALSE)

\* C12: no two consecutive tokens are both LineReference: where a line
\* reference matches at the cursor directly after a LineReference token, the
\* variable scanner rejects it and the text becomes StringLiteral '&',
\* BracketOpen, numeral, BracketClose; where it matches after any other token
\* (a whitespace separator for one) or at the start, it becomes a LineReference.
C12_NoAdjacentLineRefs ==
    /\ \A k \in 1..(Len(dst) - 1) : ~(IsLineRef(dst[k]) /\ IsLineRef(dst[k + 1]))
    /\ \A k \in (Len(dst0) + 1)..Len(dst) :
          LineRefShapedAt(TextAt(k)) =>
              IF k >= 2 /\ IsLineRef(dst[k - 1])
              THEN FallsBackFrom(k)
              ELSE /\ IsLineRef(dst[k])
                   /\ dst[k].typ.var_index \in LongestMatches(TextAt(k))
                   /\ dst[k].ptr = NameOf(dst[k].typ.var_index)

\* a line reference directly after a LineReference token of the same line,
\* emitted as the four tokens '&', '[', '1', ']'
C12_Witness ==
    /\ pc = "done"
    /\ \E k \in (Len(dst0) + 2)..Len(dst) :
          /\ IsLineRef(dst[k - 1])
          /\ LineRefShapedAt(TextAt(k))
          /\ k + 3 <= Len(dst)
          /\ dst[k + 2].typ.kind = "NumberLiteral"
          /\ dst[k + 3].typ = Operator(Op("BracketClose"))

(* ---------------------------------- C13 --------------------------------- *)
\* the first character of the line is '#'
StartsWithHash == Len(line) > 0 /\ line[1] = "#"

\* C13: for a line whose first character is '#', parse_line returns at once
\* having appended exactly one token: a Header whose span is the whole line
\* and whose error flag is clear; for any other line, no appended token is a
\* Header, wherever a '#' stands in it.
C13_HeaderLine ==
    /\ StartsWithHash =>
          /\ pc \in {"call", "done"}
          /\ pc = "call" => AppendedTokens = << >>
          /\ pc = "done" => AppendedTokens = <<Token(line, Header, FALSE)>>
    /\ ~StartsWithHash =>
          \A k \in 1..Len(AppendedTokens) : AppendedTokens[k].typ.kind # "Header"

\* a header line with text after the '#', tokenized into its one token
C13_Witness ==
    /\ pc = "done"
    /\ StartsWithHash
    /\ Len(line) >= 3
    /\ \E k \in 2..Len(line) : line[k] # "#"
    /\ Len(AppendedTokens) = 1

(* ---------------------------------- C14 --------------------------------- *)
\* the operator kinds of precedence 0
ZeroPrecedenceKinds ==
    {"BinAnd", "BinOr", "BinXor", "ParenOpen", "ParenClose", "BracketOpen", "BracketClose",
     "ShiftLeft", "ShiftRight", "Assign", "UnitConverter", "Comma", "Semicolon", "Matrix",
     "Fn"}

\* C14: precedence() returns 6 for Perc and Pow, 5 for ApplyUnit, 4 for
\* UnaryPlus, UnaryMinus and BinNot, 3 for Mult and Div, 2 for Add and Sub and
\* 0 for every other kind, whatever the payload of the operator.
C14_PrecedenceTable ==
    IsSome(op_ret.precedence) =>
        /\ op_self.kind \in {"Perc", "Pow"} <=> Unwrap(op_ret.precedence) = 6
        /\ op_self.kind = "ApplyUnit" <=> Unwrap(op_ret.precedence) = 5
        /\ op_self.kind \in {"UnaryPlus", "UnaryMinus", "BinNot"}
              <=> Unwrap(op_ret.precedence) = 4
        /\ op_self.kind \in {"Mult", "Div"} <=> Unwrap(op_ret.precedence) = 3
        /\ op_self.kind \in {"Add", "Sub"} <=> Unwrap(op_ret.precedence) = 2
        /\ op_self.kind \in ZeroPrecedenceKinds <=> Unwrap(op_ret.precedence) = 0
        /\ Unwrap(op_ret.precedence) \in {0, 2, 3, 4, 5, 6}

\* precedence() has returned 5 for an ApplyUnit whose unit has an exponent
C14_Witness ==
    /\ IsSome(op_ret.precedence)
    /\ op_self.kind = "ApplyUnit"
    /\ op_self.unit.exp # << >>
    /\ Unwrap(op_ret.precedence) = 5

(* ---------------------------------- C15 --------------------------------- *)
\* C15: assoc() returns Right exactly for Pow, Comma and Semicolon and Left
\* for every other kind, whatever the payload of the operator.
C15_AssocTable ==
    IsSome(op_ret.assoc) =>
        /\ Unwrap(op_ret.assoc) \in {Left, Right}
        /\ Unwrap(op_ret.assoc) = Right <=> op_self.kind \in {"Pow", "Comma", "Semicolon"}

\* assoc() has returned Right for Semicolon, after precedence() returned
C15_Witness ==
    /\ IsSome(op_ret.assoc)
    /\ IsSome(op_ret.precedence)
    /\ op_self = Op("Semicolon")
    /\ Unwrap(op_ret.assoc) = Right

(* ---------------------------------- C16 --------------------------------- *)
\* C16: for a line that does not start with '#', some scanner matches at
\* every cursor position (a character that ends a word is a one-character
\* operator for the operator scanner), so the loop is never left by the
\* no-match break, and a call that returns has consumed the whole line: the
\* lengths of the emitted spans sum to the length of the line.
C16_WholeLineConsumed ==
    /\ (InLoop /\ index < Len(line)) =>
          /\ CurrentResult.panic = "" => IsSome(CurrentResult.tok)
          /\ AtCursor[1] \in StringBreakChars =>
                /\ IsSome(try_extract_operator(AtCursor))
                /\ Unwrap(try_extract_operator(AtCursor)).typ.kind = "Operator"
                /\ Unwrap(try_extract_operator(AtCursor)).ptr = <<AtCursor[1]>>
    /\ (pc = "done" /\ ~StartsWithHash) =>
          /\ index = Len(line)
          /\ Len(Spans(AppendedTokens)) = Len(line)

\* the line of the eleven characters that end a word, tokenized to its end
\* into eleven one-character operators
C16_Witness ==
    /\ pc = "done"
    /\ Len(line) = Cardinality(StringBreakChars)
    /\ \A c \in StringBreakChars : \E k \in 1..Len(line) : line[k] = c
    /\ Len(AppendedTokens) = Len(line)
    /\ \A k \in 1..Len(AppendedTokens) : AppendedTokens[k].typ.kind = "Operator"

(* ---------------------------------- C17 --------------------------------- *)
\* the result of the first scanner that matches at str, the scanners taken in
\* the order comment, variable, unit, operator, number, string
FirstMatch(str) ==
    IF IsSome(try_extract_comment(str)) THEN try_extract_comment(str)
    ELSE IF IsSome(try_extract_variable_name(str, variable_names, line_index,
                                             PrevWasLineref(dst)))
    THEN try_extract_variable_name(str, variable_names, line_index, PrevWasLineref(dst))
    ELSE IF IsSome(try_extract_unit(str, can_be_unit).tok)
    THEN try_extract_unit(str, can_be_unit).tok
    ELSE IF IsSome(try_extract_operator(str)) THEN try_extract_operator(str)
    ELSE IF IsSome(try_extract_number_literal(str).tok)
    THEN try_extract_number_literal(str).tok
    ELSE try_extract_string_literal(str)

\* C17: the token emitted at a cursor is the result of the first scanner that
\* matches there in the order comment, variable, unit, operator, number,
\* string; a '//' at the cursor yields one StringLiteral spanning the rest of
\* the line, after which the cursor is at the end of the line.
C17_ScannerOrder ==
    [][/\ TokenAppended => Appended = Unwrap(FirstMatch(AtCursor))
       /\ (InLoop /\ index < Len(line) /\ Len(AtCursor) >= 2
              /\ AtCursor[1] = "/" /\ AtCursor[2] = "/") =>
              /\ TokenAppended
              /\ Appended = Token(AtCursor, StringLiteral, FALSE)
              /\ index' = Len(line)
    ]_vars

\* a Variable token whose name starts with a numeral that the number scanner
\* matches at the same cursor
C17_Witness ==
    /\ Len(dst) >= 1
    /\ LastToken.typ.kind = "Variable"
    /\ is_ascii_digit(LastToken.ptr[1])
    /\ IsSome(try_extract_number_literal(BeforeLast).tok)

(* ---------------------------------- C18 --------------------------------- *)
IsNumeralToken(t) == t.typ.kind \in {"NumberLiteral", "NumberErr"}

\* the '-' at position k of the span w is the sign of an exponent: an 'e'
\* stands before it, after a digit, with nothing but whitespace in between
IsExponentSign(w, k) ==
    \E j \in 2..(k - 1) :
        /\ w[j] = "e"
        /\ IsWhitespaceOnly(SubSeq(w, j + 1, k - 1))

\* C18: a '-' at the cursor that reaches the operator scanner is emitted as
\* the one-character token Operator(Sub); no numeral token starts with '-',
\* no NumberLiteral is negative, and a '-' stands inside a numeral's span only
\* as the sign of an exponent.
C18_MinusIsItsOwnToken ==
    /\ [](\A k \in 1..Len(AppendedTokens) :
             IsNumeralToken(AppendedTokens[k]) =>
                 /\ AppendedTokens[k].ptr[1] # "-"
                 /\ AppendedTokens[k].typ.kind = "NumberLiteral" =>
                       ~AppendedTokens[k].typ.value.neg
                 /\ \A c \in 1..Len(AppendedTokens[k].ptr) :
                       AppendedTokens[k].ptr[c] = "-" =>
                           IsExponentSign(AppendedTokens[k].ptr, c))
    /\ [][(/\ InLoop
            /\ index < Len(line)
            /\ AtCursor[1] = "-"
            /\ CurrentResult.by \notin {"comment", "variable", "unit"})
              => /\ TokenAppended
                 /\ Appended = Token(<<"-">>, Operator(Op("Sub")), FALSE)
                 /\ CurrentResult.by = "operator"
       ]_vars

\* a '-' directly before a hex numeral: the Sub token, then the NumberLiteral
\* over the numeral alone
C18_Witness ==
    /\ Len(dst) >= 2
    /\ dst[Len(dst) - 1] = Token(<<"-">>, Operator(Op("Sub")), FALSE)
    /\ LastToken.typ.kind = "NumberLiteral"
    /\ Len(LastToken.ptr) >= 3
    /\ LastToken.ptr[2] = "x"

(* ---------------------------------- C19 --------------------------------- *)
\* a token that the search for the nearest preceding token passes over
IsSkipped(t) ==
    \/ t.typ.kind = "StringLiteral" /\ IsWhitespaceOnly(t.ptr)
    \/ t.typ.kind = "Operator" /\ t.typ.op.kind = "ParenClose"

\* the positions before k of the appended tokens that are not passed over
SignificantBefore(k) == {j \in 1..(k - 1) : ~IsSkipped(AppendedTokens[j])}

\* the nearest token before position k that is neither whitespace nor
\* ParenClose
NearestBefore(k) == AppendedTokens[MaxIndex(SignificantBefore(k))]

IsDivOrUnitConverter(t) ==
    t.typ.kind = "Operator" /\ t.typ.op.kind \in {"Div", "UnitConverter"}

\* C19: an ApplyUnit token occurs only where the nearest preceding token that
\* is neither whitespace nor ParenClose is a NumberLiteral or NumberErr, a Unit
\* token only where it is Div or UnitConverter; the token that follows a unit
\* token, directly or after whitespace, is never a unit token.
C19_UnitContext ==
    \A k \in 1..Len(AppendedTokens) :
        /\ (AppendedTokens[k].typ.kind = "Operator"
               /\ AppendedTokens[k].typ.op.kind = "ApplyUnit")
              => /\ SignificantBefore(k) # {}
                 /\ IsNumeralToken(NearestBefore(k))
        /\ AppendedTokens[k].typ.kind = "Unit"
              => /\ SignificantBefore(k) # {}
                 /\ IsDivOrUnitConverter(NearestBefore(k))
        /\ IsUnitToken(AppendedTokens[k])
              => /\ SignificantBefore(k) # {}
                 /\ ~IsUnitToken(NearestBefore(k))

\* an ApplyUnit token followed by whitespace and a word that the Unit Grammar
\* matches, emitted as a StringLiteral
C19_Witness ==
    /\ Len(dst) >= 4
    /\ LastToken.typ = StringLiteral
    /\ UnitParse(LastToken.ptr).parsed_len > 0
    /\ IsSkipped(dst[Len(dst) - 1])
    /\ dst[Len(dst) - 2].typ.kind = "Operator"
    /\ dst[Len(dst) - 2].typ.op.kind = "ApplyUnit"

(* ---------------------------------- C20 --------------------------------- *)
\* the token of the reserved variable sum
SumToken == Token(<<"s", "u", "m">>, Variable(SUM_VARIABLE_INDEX), FALSE)

\* C20: where the text at the cursor is sum followed by a space or the end of
\* the line, the token is the three-character Variable token of the reserved
\* sum index, whatever line_index and the table are; where sum is followed by
\* any other character, the token does not carry the reserved sum index.
C20_ReservedSum ==
    [][(InLoop /\ index < Len(line) /\ pc' # "panic") =>
          IF ReservedSumAt(AtCursor)
          THEN TokenAppended /\ Appended = SumToken
          ELSE TokenAppended =>
                  ~(/\ Appended.typ.kind \in {"Variable", "LineReference"}
                    /\ Appended.typ.var_index = SUM_VARIABLE_INDEX)
    ]_vars

\* the reserved sum token emitted where a longer visible name matches, too
C20_Witness ==
    /\ Len(dst) >= 1
    /\ LastToken = SumToken
    /\ \E j \in VisibleMatches(BeforeLast) : Len(NameOf(j)) > 3

(* ---------------------------------- C21 --------------------------------- *)
\* the span w has the shape of a line reference
HasLineRefShape(w) == Len(w) > 2 /\ w[1] = "&" /\ w[2] = "["

\* C21: a token of a table entry carries the index of a visible entry that
\* matches at the cursor and that entry's name as span; it is a LineReference
\* if and only if the name starts with '&[' and is longer than 2 characters
\* (the previous token then not being a LineReference), a Variable otherwise;
\* and a table match that is not a line reference after a LineReference is
\* emitted as such a token.
C21_LineRefOrVariable ==
    [][(VariableAttempted /\ TokenAppended /\ ~ReservedSumAt(AtCursor)) =>
          /\ Appended.typ.kind \in {"Variable", "LineReference"} =>
                /\ Appended.typ.var_index \in VisibleMatches(AtCursor)
                /\ Appended.ptr = NameOf(Appended.typ.var_index)
                /\ ~Appended.has_error
                /\ Appended.typ.kind = "LineReference" <=> HasLineRefShape(Appended.ptr)
                /\ Appended.typ.kind = "LineReference" => ~PrevWasLineref(dst)
          /\ (VisibleMatches(AtCursor) # {} /\ ~RepeatedLineRefAt(AtCursor)) =>
                Appended.typ.kind \in {"Variable", "LineReference"}
    ]_vars

\* the entry named '&[' emitted as a Variable, after a LineReference token
C21_Witness ==
    /\ Len(dst) >= 2
    /\ LastToken.typ.kind = "Variable"
    /\ LastToken.ptr = <<"&", "[">>
    /\ IsLineRef(dst[Len(dst) - 1])
(* ---------------------------------- C22 --------------------------------- *)
\* the step appends a numeral scanned by the decimal branch
DecimalLiteralAppended ==
    /\ TokenAppended
    /\ IsNumeralToken(Appended)
    /\ ~starts_with(AtCursor, <<"0", "b">>)
    /\ ~starts_with(AtCursor, <<"0", "x">>)
    /\ (is_ascii_digit(AtCursor[1]) \/ AtCursor[1] = ".")

\* the text that follows the appended token
AfterAppended == From(AtCursor, Len(Appended.ptr))

RECURSIVE WithoutWhitespace(_)
\* the characters of w that are not whitespace, in order
WithoutWhitespace(w) ==
    IF w = << >> THEN << >>
    ELSE IF Len(w) = 1 THEN (IF is_ascii_whitespace(w[1]) THEN << >> ELSE w)
    ELSE WithoutWhitespace(Take(w, Len(w) \div 2))
             \o WithoutWhitespace(From(w, Len(w) \div 2))

CountOf(w, c) == Cardinality({k \in 1..Len(w) : w[k] = c})

\* w is whitespace, possibly none, and then a digit
DigitAfterWhitespace(w) ==
    \E k \in 1..Len(w) :
        is_ascii_digit(w[k]) /\ \A j \in 1..(k - 1) : is_ascii_whitespace(w[j])

\* w holds nothing but digits, whitespace and decimal points
IsPlainDecimal(w) == \A k \in 1..Len(w) : w[k] \notin {"e", "k", "M", "-"}

ExponentAt(w, k) ==
    \E d \in (k + 1)..Len(w) :
        /\ is_ascii_digit(w[d])
        /\ \A j \in (k + 1)..(d - 1) : is_ascii_whitespace(w[j]) \/ w[j] = "-"
        /\ CountOf(SubSeq(w, k + 1, d - 1), "-") <= 1
        /\ \A j \in (d + 1)..Len(w) : is_ascii_digit(w[j]) \/ is_ascii_whitespace(w[j])

\* w starts with an 'e' that a digit follows after whitespace and at most one '-'
ExponentFollows(w) ==
    /\ w # << >>
    /\ w[1] = "e"
    /\ \E d \in 2..Len(w) :
           /\ is_ascii_digit(w[d])
           /\ \A j \in 2..(d - 1) : is_ascii_whitespace(w[j]) \/ w[j] = "-"
           /\ CountOf(SubSeq(w, 2, d - 1), "-") <= 1

\* C23: the span of a decimal literal holds at most one 'e'; the 'e' stands
\* after a character that is not whitespace and is followed, within the span,
\* by whitespace and at most one '-', a first digit, and then digits and
\* whitespace only (no second 'e', no '.'); a '-' stands in the span only after
\* the 'e'; the value is the mantissa scaled by the power of ten; a literal
\* without 'e' is followed by an 'e' only when no exponent can be read there.
C23_ExponentMarker ==
    [][DecimalLiteralAppended =>
          /\ CountOf(Appended.ptr, "e") <= 1
          /\ \A k \in 1..Len(Appended.ptr) :
                /\ Appended.ptr[k] = "e" =>
                      /\ k > 1
                      /\ ~is_ascii_whitespace(Appended.ptr[k - 1])
                      /\ ExponentAt(Appended.ptr, k)
                /\ Appended.ptr[k] = "-" => CountOf(Take(Appended.ptr, k), "e") = 1
          /\ (CountOf(Appended.ptr, "e") = 1
                 /\ Decimal_from_scientific(WithoutWhitespace(Appended.ptr)).ok) =>
                /\ Appended.typ =
                      NumberLiteral(Decimal_from_scientific(WithoutWhitespace(Appended.ptr)).value)
                /\ ~Appended.has_error
          /\ CountOf(Appended.ptr, "e") = 0 => ~ExponentFollows(AfterAppended)
    ]_vars

\* '3e-3-' has been parsed into 0.003 and Sub
C23_Witness ==
    /\ pc = "done"
    /\ line = <<"3", "e", "-", "3", "-">>
    /\ dst = <<Token(<<"3", "e", "-", "3">>, NumberLiteral(Dec(FALSE, << >>, <<0, 0, 3>>)), FALSE),
               Token(<<"-">>, Operator(Op("Sub")), FALSE)>>

(* ---------------------------------- C24 --------------------------------- *)
\* w starts with 'k' or 'M' and no letter follows it
SuffixFollows(w) ==
    /\ w # << >>
    /\ w[1] \in {"k", "M"}
    /\ Len(w) >= 2 => ~is_alphabetic(w[2])

EndsInSuffix(w) == w[Len(w)] \in {"k", "M"}

\* the value of the literal w that ends in a suffix, before the multiplication
Mantissa(w) == Decimal_from_str(WithoutWhitespace(Take(w, Len(w) - 1)))

\* the product of the literal w that ends in a suffix
Multiplied(w) ==
    checked_mul(IF w[Len(w)] = "k" THEN 1000 ELSE 1000000, Mantissa(w).value)

\* C24 as stated: a 'k' or 'M' that stands directly after a decimal literal
\* and before no letter is part of the literal.
C24_SuffixAlways ==
    [][(DecimalLiteralAppended /\ ~EndsInSuffix(Appended.ptr))
          => ~SuffixFollows(AfterAppended)]_vars

\* C24 amended: a 'k' or 'M' that stands directly after a decimal literal
\* without exponent marker and before no letter is part of the literal; a 'k'
\* or 'M' stands in a span only as its last character, after a character that
\* is not whitespace, in a literal with a digit and without 'e', and no letter
\* follows it; the value is then the mantissa times 1000 or 1000000 (NumberErr
\* when the product is not representable); a 'k' or 'M' at the cursor never
\* starts a numeral.
C24_Suffix ==
    [][/\ DecimalLiteralAppended =>
             /\ (~EndsInSuffix(Appended.ptr) /\ CountOf(Appended.ptr, "e") = 0)
                    => ~SuffixFollows(AfterAppended)
             /\ \A k \in 1..(Len(Appended.ptr) - 1) : Appended.ptr[k] \notin {"k", "M"}
             /\ EndsInSuffix(Appended.ptr) =>
                   /\ Len(Appended.ptr) >= 2
                   /\ ~is_ascii_whitespace(Appended.ptr[Len(Appended.ptr) - 1])
                   /\ CountOf(Appended.ptr, "e") = 0
                   /\ \E k \in 1..Len(Appended.ptr) : is_ascii_digit(Appended.ptr[k])
                   /\ AfterAppended # << >> => ~is_alphabetic(AfterAppended[1])
                   /\ Mantissa(Appended.ptr).ok =>
                         IF IsSome(Multiplied(Appended.ptr))
                         THEN /\ Appended.typ = NumberLiteral(Unwrap(Multiplied(Appended.ptr)))
                              /\ ~Appended.has_error
                         ELSE Appended.typ = NumberErr /\ Appended.has_error
       /\ (TokenAppended /\ AtCursor[1] \in {"k", "M"}) => ~IsNumeralToken(Appended)
    ]_vars

\* '3M+1k' has been parsed into 3000000, Add and 1000
C24_Witness ==
    /\ pc = "done"
    /\ dst = <<Token(<<"3", "M">>, NumberLiteral(Dec(FALSE, <<3, 0, 0, 0, 0, 0, 0>>, << >>)), FALSE),
               Token(<<"+">>, Operator(Op("Add")), FALSE),
               Token(<<"1", "k">>, NumberLiteral(Dec(FALSE, <<1, 0, 0, 0>>, << >>)), FALSE)>>

(* ---------------------------------- C25 --------------------------------- *)
Whitespace == {" ", "\t", "\n", "\r", "\f"}

\* the length of the longest prefix of w made of characters of S
PrefixIn(w, S) ==
    CHOOSE n \in 0..Len(w) :
        /\ \A k \in 1..n : w[k] \in S
        /\ n < Len(w) => w[n + 1] \notin S

\* the length of the longest prefix of w made of characters outside S
PrefixNotIn(w, S) ==
    CHOOSE n \in 0..Len(w) :
        /\ \A k \in 1..n : w[k] \notin S
        /\ n < Len(w) => w[n + 1] \in S

\* the position of the last character of S among the first n of w, 0 if none
LastIn(w, n, S) ==
    IF \E k \in 1..n : w[k] \in S
    THEN CHOOSE k \in 1..n : w[k] \in S /\ \A j \in (k + 1)..n : w[j] \notin S
    ELSE 0

\* the length of the binary literal at str, which starts with '0b': up to the
\* last binary digit of the run of binary digits and whitespace (2 without digit)
BinSpan(str) ==
    2 + LastIn(From(str, 2), PrefixIn(From(str, 2), {"0", "1"} \cup Whitespace), {"0", "1"})

BinValue(str) == i64_from_str_radix(WithoutWhitespace(SubSeq(str, 3, BinSpan(str))), 2)

\* the word a string fallback returns at str
WordAt(str) ==
    Take(str, PrefixNotIn(str, Whitespace \cup
                  {"=", "%", "/", "+", "-", "*", "^", "(", ")", "[", "]"}))

\* C25: at '0b' followed, after whitespace or directly, by a binary digit, the
\* token is a NumberLiteral whose span runs to the last digit of the run of
\* binary digits and whitespace and whose value is that of the digits in base 2;
\* at '0b' not followed by one, no numeral is emitted and the token is the
\* StringLiteral of the word that starts there.
C25_BinaryLiteral ==
    [][(TokenAppended /\ starts_with(AtCursor, <<"0", "b">>)) =>
          /\ (BinSpan(AtCursor) > 2 /\ BinValue(AtCursor).ok) =>
                Appended = Token(Take(AtCursor, BinSpan(AtCursor)),
                                 NumberLiteral(BinValue(AtCursor).value), FALSE)
          /\ BinSpan(AtCursor) = 2 =>
                Appended = Token(WordAt(AtCursor), StringLiteral, FALSE)
    ]_vars

\* '0b0101 101     1' has been parsed into the single numeral 91
C25_Witness ==
    /\ pc = "done"
    /\ Len(line) = 16
    /\ starts_with(line, <<"0", "b">>)
    /\ dst = <<Token(line, NumberLiteral(Dec(FALSE, <<9, 1>>, << >>)), FALSE)>>

(* ---------------------------------- C26 --------------------------------- *)
\* w[k] is a separator, or a hex digit followed by nothing, by a hex digit,
\* by '_' or by a character that is not a letter
HexConsumed(w, k) ==
    \/ w[k] = "_"
    \/ /\ is_ascii_hexdigit(w[k])
       /\ k < Len(w) =>
             \/ is_ascii_hexdigit(w[k + 1])
             \/ w[k + 1] = "_"
             \/ ~is_alphabetic(w[k + 1])

\* the length of the longest prefix of w whose characters are all consumed
HexRun(w) ==
    CHOOSE n \in 0..Len(w) :
        /\ \A k \in 1..n : HexConsumed(w, k)
        /\ n < Len(w) => ~HexConsumed(w, n + 1)

\* the length of the hexadecimal literal at str, which starts with '0x': up to
\* the last digit of the consumed run (2 without digit)
HexSpan(str) ==
    2 + (IF \E k \in 1..HexRun(From(str, 2)) : From(str, 2)[k] # "_"
         THEN CHOOSE k \in 1..HexRun(From(str, 2)) :
                  /\ From(str, 2)[k] # "_"
                  /\ \A j \in (k + 1)..HexRun(From(str, 2)) : From(str, 2)[j] = "_"
         ELSE 0)

RECURSIVE WithoutSeparators(_)
\* the characters of w that are not '_', in order
WithoutSeparators(w) ==
    IF w = << >> THEN << >>
    ELSE IF Len(w) = 1 THEN (IF w[1] = "_" THEN << >> ELSE w)
    ELSE WithoutSeparators(Take(w, Len(w) \div 2))
             \o WithoutSeparators(From(w, Len(w) \div 2))

HexValue(str) == i64_from_str_radix(WithoutSeparators(SubSeq(str, 3, HexSpan(str))), 16)

\* C26: at '0x', the literal consumes '_' and the hex digits that are followed
\* by nothing, a hex digit, '_' or a character that is no letter, and stops at
\* anything else, whitespace included; when a digit was consumed the token is
\* a NumberLiteral whose span runs to the last consumed digit and whose value
\* is that of the digits in base 16; when none was, no numeral is emitted.
C26_HexLiteral ==
    [][(TokenAppended /\ starts_with(AtCursor, <<"0", "x">>)) =>
          /\ (HexSpan(AtCursor) > 2 /\ HexValue(AtCursor).ok) =>
                Appended = Token(Take(AtCursor, HexSpan(AtCursor)),
                                 NumberLiteral(HexValue(AtCursor).value), FALSE)
          /\ HexSpan(AtCursor) = 2 => ~IsNumeralToken(Appended)
    ]_vars

\* '0xAB_Cd_e____f' has been parsed into the single numeral 11259375
C26_Witness ==
    /\ pc = "done"
    /\ Len(line) = 14
    /\ starts_with(line, <<"0", "x", "A", "B", "_">>)
    /\ dst = <<Token(line, NumberLiteral(Dec(FALSE, <<1, 1, 2, 5, 9, 3, 7, 5>>, << >>)), FALSE)>>

(* ---------------------------------- C27 --------------------------------- *)
\* the characters that are operators by themselves, with their kinds
OneCharOperators ==
    {<<"=", "Assign">>, <<"+", "Add">>, <<"-", "Sub">>, <<"*", "Mult">>, <<"/", "Div">>,
     <<"%", "Perc">>, <<"^", "Pow">>, <<"(", "ParenOpen">>, <<")", "ParenClose">>,
     <<"[", "BracketOpen">>, <<"]", "BracketClose">>, <<",", "Comma">>,
     <<";", "Semicolon">>}

\* the words that are operators when no letter follows them
WordOperators ==
    {<<(<<"A", "N", "D">>), "BinAnd">>, <<(<<"O", "R">>), "BinOr">>,
     <<(<<"X", "O", "R">>), "BinXor">>}

\* no letter stands after the first n characters of str
NoLetterAfter(str, n) == Len(str) > n => ~is_alphabetic(str[n + 1])

\* the operators of the claim at str, as pairs of a kind and a length
OperatorRules(str) ==
    {<<p[2], 1>> : p \in {q \in OneCharOperators : q[1] = str[1]}}
        \cup {<<p[2], Len(p[1])>> :
                 p \in {q \in WordOperators :
                           starts_with(str, q[1]) /\ NoLetterAfter(str, Len(q[1]))}}
        \cup (IF starts_with(str, <<"i", "n", " ">>) THEN {<<"UnitConverter", 2>>} ELSE {})
        \cup (IF starts_with(str, <<"N", "O", "T", "(">>) THEN {<<"BinNot", 3>>} ELSE {})
        \cup (IF starts_with(str, <<"<", "<">>) THEN {<<"ShiftLeft", 2>>} ELSE {})
        \cup (IF starts_with(str, <<">", ">">>) THEN {<<"ShiftRight", 2>>} ELSE {})

\* the text at the cursor is left to the operator scanner
OperatorAttempted ==
    InLoop /\ index < Len(line) /\ CurrentResult.by \in {"operator", "number", "string"}

\* C27: where the operator scanner is reached, the token is the operator of
\* the rule that applies at the cursor, over exactly the rule's characters
\* (one for = + - * / % ^ ( ) [ ] , ; two for 'in' before a space, for OR before
\* no letter, for << and >>; three for AND and XOR before no letter and for NOT
\* before '('), and no operator token where no rule applies.
C27_OperatorScanner ==
    [][(OperatorAttempted /\ TokenAppended) =>
          IF OperatorRules(AtCursor) # {}
          THEN \E r \in OperatorRules(AtCursor) :
                   Appended = Token(Take(AtCursor, r[2]), Operator(Op(r[1])), FALSE)
          ELSE Appended.typ.kind # "Operator"
    ]_vars

\* 'NOT(' has been parsed into BinNot over three characters and ParenOpen
C27_Witness ==
    /\ pc = "done"
    /\ dst = <<Token(<<"N", "O", "T">>, Operator(Op("BinNot")), FALSE),
               Token(<<"(">>, Operator(Op("ParenOpen")), FALSE)>>

(* ---------------------------------- C28 --------------------------------- *)
\* the characters at which a word of the string fallback ends
WordEnds == {"=", "%", "/", "+", "-", "*", "^", "(", ")", "[", "]"}

\* the run of whitespace at the start of str
WhitespaceAt(str) == Take(str, PrefixIn(str, Whitespace))

\* C28: where the string fallback is reached, the token is a StringLiteral;
\* every StringLiteral but a comment spans, at whitespace, the maximal run
\* of whitespace, and otherwise the maximal run of characters that are neither
\* whitespace nor one of = % / + - * ^ ( ) [ ]; it never starts with one of
\* these, is never empty and never mixes whitespace with other characters;
\* called at one of these characters, the fallback returns no match.
C28_StringFallback ==
    [][/\ (InLoop /\ index < Len(line) /\ AtCursor[1] \in WordEnds) =>
             try_extract_string_literal(AtCursor) = None
       /\ TokenAppended =>
          /\ CurrentResult.by = "string" => Appended.typ = StringLiteral
          /\ (Appended.typ = StringLiteral /\ ~starts_with(AtCursor, <<"/", "/">>)) =>
                /\ ~Appended.has_error
                /\ Appended.ptr # << >>
                /\ AtCursor[1] \notin WordEnds
                /\ Appended.ptr = IF AtCursor[1] \in Whitespace THEN WhitespaceAt(AtCursor)
                                  ELSE WordAt(AtCursor)
                /\ \/ \A k \in 1..Len(Appended.ptr) : Appended.ptr[k] \in Whitespace
                   \/ \A k \in 1..Len(Appended.ptr) : Appended.ptr[k] \notin Whitespace
    ]_vars

\* a word with a comma and the whitespace after it are two StringLiterals
C28_Witness ==
    /\ pc = "done"
    /\ dst = <<Token(<<"a", ",">>, StringLiteral, FALSE),
               Token(<<" ">>, StringLiteral, FALSE)>>

(* ---------------------------------- C29 --------------------------------- *)
\* C29: every token appended by parse_line, the Header token included, has
\* its error flag set if and only if its kind is NumberErr.
C29_ErrorFlag ==
    \A k \in 1..Len(AppendedTokens) :
        AppendedTokens[k].has_error <=> AppendedTokens[k].typ.kind = "NumberErr"

\* a line has been parsed into a NumberErr with the flag and tokens of other
\* kinds without it
C29_Witness ==
    /\ pc = "done"
    /\ dst0 = << >>
    /\ Len(dst) >= 3
    /\ dst[1].typ.kind = "NumberErr" /\ dst[1].has_error
    /\ \E k \in 2..Len(dst) : dst[k].typ.kind = "Operator" /\ ~dst[k].has_error
    /\ \E k \in 2..Len(dst) : dst[k].typ.kind = "NumberLiteral" /\ ~dst[k].has_error

(* ---------------------------------- C30 --------------------------------- *)
\* the operator kinds that only later stages produce
NeverScanned == {"UnaryPlus", "UnaryMinus", "Matrix", "Fn"}

\* C30: no appended token is an Operator of kind UnaryPlus, UnaryMinus, Matrix
\* or Fn; a Header token is the only token of its line and is not appended by
\* the loop; at every cursor of the loop the scanners return no Header token
\* and the unit scanner does not reach its arm for the mode Not; parse_line
\* never panics in the Header arm of its mode update nor in that arm.
C30_UnreachableArms ==
    /\ panic_site \notin {"header", "impossible"}
    /\ \A k \in 1..Len(AppendedTokens) :
          /\ AppendedTokens[k].typ.kind = "Operator" =>
                AppendedTokens[k].typ.op.kind \notin NeverScanned
          /\ AppendedTokens[k].typ.kind = "Header" =>
                /\ Len(AppendedTokens) = 1
                /\ pc = "done"
                /\ index = 0
                /\ line[1] = "#"
    /\ (InLoop /\ index < Len(line)) =>
          /\ try_extract_unit(AtCursor, can_be_unit).panic = ""
          /\ CurrentResult.panic # "impossible"
          /\ (CurrentResult.panic = "" /\ IsSome(CurrentResult.tok)) =>
                Unwrap(CurrentResult.tok).typ.kind # "Header"

\* a line has been parsed whose last tokens are Div and a Unit: the unit
\* scanner has reached its match on the mode
C30_Witness ==
    /\ pc = "done"
    /\ Len(dst) >= 3
    /\ dst[Len(dst)].typ.kind = "Unit"
    /\ dst[Len(dst) - 1].typ = Operator(Op("Div"))
    /\ dst[1].typ.kind = "NumberLiteral"
====
